---- MODULE Spec2Model ----
(***************************************************************************)
(* Applicant reconciliation, status derivation and the e-signature         *)
(* envelope orchestration of cio/src/applicants.rs, together with the      *)
(* envelope webhook of webhooky/src/main.rs.                               *)
(*                                                                         *)
(* One applicant is followed through three stores: the spreadsheet row,    *)
(* the database row and the workspace (Airtable) record.                   *)
(***************************************************************************)
EXTENDS Integers, Sequences, FiniteSets, TLC

VARIABLES
    self,    \* the Applicant a standalone call works on (NoApplicant outside one)
    db,      \* the applicants row of the database
    at,      \* the record of the workspace table
    sheet,   \* the spreadsheet row: raw status and start date columns
    today,   \* Utc::now().date()
    prov,    \* the e-signature provider: envelopes created and their status
    checkr,  \* the background-check provider: the candidate and its invitations
    employee,\* the users row whose recovery email is the applicant's email
    out,     \* what the last operation did: notifications posted, calls made
    track,   \* history of the applicant's status with respect to manual overrides
    drive,   \* the files behind the applicant's resume and materials links
    tmp      \* the paths that exist under env::temp_dir()

vars == <<self, db, at, sheet, today, prov, checkr, employee, out, track, drive, tmp>>

(***************************************************************************)
(* Bounds                                                                  *)
(***************************************************************************)
MaxDay == 1
MaxInterviews == 2
MaxCreates == 2
MaxEvals == 1
MaxReviews == 2
MaxApplicants == 2
MaxMembers == 2
MaxBlocks == 4

Days == 1..MaxDay
Now == 0..MaxDay

(***************************************************************************)
(* Option<T>                                                               *)
(***************************************************************************)
None == <<>>
Some(x) == <<x>>
is_some(o) == o # None
unwrap(o) == o[1]

(***************************************************************************)
(* Text: a String is its sequence of characters                            *)
(***************************************************************************)
Upper == <<"A", "B", "C", "D", "E", "F", "G", "H", "I", "J", "K", "L", "M", "N", "O", "P", "Q", "R", "S", "T", "U", "V", "W", "X", "Y", "Z">>
Lower == <<"a", "b", "c", "d", "e", "f", "g", "h", "i", "j", "k", "l", "m", "n", "o", "p", "q", "r", "s", "t", "u", "v", "w", "x", "y", "z">>

\* str::to_lowercase
to_lowercase(s) ==
    [i \in 1..Len(s) |->
        IF \E k \in 1..Len(Upper) : Upper[k] = s[i]
        THEN Lower[CHOOSE k \in 1..Len(Upper) : Upper[k] = s[i]]
        ELSE s[i]]

\* str::starts_with
starts_with(s, prefix) ==
    Len(s) >= Len(prefix) /\ SubSeq(s, 1, Len(prefix)) = prefix

\* char::is_whitespace
White == {" ", "\n", "\t", "\r"}

\* str::trim
RECURSIVE trim_start(_)
trim_start(s) == IF s # <<>> /\ Head(s) \in White THEN trim_start(Tail(s)) ELSE s

RECURSIVE trim_end(_)
trim_end(s) ==
    IF s # <<>> /\ s[Len(s)] \in White THEN trim_end(SubSeq(s, 1, Len(s) - 1)) ELSE s

trim(s) == trim_end(trim_start(s))

(***************************************************************************)
(* Text extraction: get_file_contents and its converters                   *)
(***************************************************************************)
\* Result<T>: Ok(value), Err(error); a panic ends the thread.
Ok(x) == [kind |-> "Ok", value |-> x]
Err(e) == [kind |-> "Err", value |-> e]
Panic(e) == [kind |-> "panic", value |-> e]

\* str::ends_with
ends_with(s, suffix) ==
    Len(s) >= Len(suffix) /\ SubSeq(s, Len(s) - Len(suffix) + 1, Len(s)) = suffix

\* str::contains
str_contains(s, t) ==
    \E i \in 1..(Len(s) - Len(t) + 1) : SubSeq(s, i, i + Len(t) - 1) = t

\* str::replace: every non-overlapping match of `from`, left to right.
\* replace_from is the text from position i on, replaced.
RECURSIVE replace_from(_, _, _, _)
replace_from(s, i, from, to) ==
    IF i > Len(s) THEN <<>>
    ELSE IF i + Len(from) - 1 <= Len(s) /\ s[i] = from[1]
            /\ SubSeq(s, i, i + Len(from) - 1) = from
    THEN to \o replace_from(s, i + Len(from), from, to)
    ELSE <<s[i]>> \o replace_from(s, i + 1, from, to)

replace(s, from, to) == replace_from(s, 1, from, to)

is_materials(file_name) ==
    \/ ends_with(file_name, <<"r", "e", "s", "p", "o", "n", "s", "e", "s", ".", "p", "d", "f">>)
    \/ (starts_with(file_name, <<"O", "x", "i", "d", "e", " ", "C", "a", "n", "d", "i", "d", "a", "t", "e", " ", "M", "a", "t", "e", "r", "i", "a", "l", "s">>) /\ ends_with(file_name, <<".", "p", "d", "f">>))
    \/ (str_contains(file_name, <<"O", "x", "i", "d", "e", "_", "C", "a", "n", "d", "i", "d", "a", "t", "e", "_", "M", "a", "t", "e", "r", "i", "a", "l", "s">>) /\ ends_with(file_name, <<".", "p", "d", "f">>))
    \/ ends_with(file_name, <<"O", "x", "i", "d", "e", " ", "C", "a", "n", "d", "i", "d", "a", "t", "e", " ", "M", "a", "t", "e", "r", "i", "a", "l", "s", ".", "p", "d", "f">>)
    \/ ends_with(file_name, <<"O", "x", "i", "d", "e", " ", "C", "a", "n", "d", "i", "d", "a", "t", "e", " ", "M", "a", "t", "e", "r", "i", "a", "l", "s", ".", "p", "d", "f", ".", "p", "d", "f">>)
    \/ ends_with(file_name, <<"O", "x", "i", "d", "e", "Q", "u", "e", "s", "t", "i", "o", "n", "s", ".", "p", "d", "f">>)
    \/ ends_with(file_name, <<"o", "x", "i", "d", "e", "-", "c", "o", "m", "p", "u", "t", "e", "r", "-", "c", "a", "n", "d", "i", "d", "a", "t", "e", "-", "m", "a", "t", "e", "r", "i", "a", "l", "s", ".", "p", "d", "f">>)
    \/ ends_with(file_name, <<"Q", "u", "e", "s", "t", "i", "o", "n", "n", "a", "i", "r", "e", ".", "p", "d", "f">>)
    \/ ends_with(file_name, <<"q", "u", "e", "s", "t", "i", "o", "n", "n", "a", "i", "r", "e", ".", "m", "d">>)
    \/ ends_with(file_name, <<"Q", "u", "e", "s", "t", "i", "o", "n", "a", "i", "r", "r", "e", ".", "p", "d", "f">>)
    \/ ends_with(file_name, <<"O", "p", "e", "r", "a", "t", "i", "o", "n", "s", " ", "M", "a", "n", "a", "g", "e", "r", ".", "p", "d", "f">>)
    \/ ends_with(file_name, <<"R", "E", "A", "D", "M", "E", ".", "m", "d">>)

\* The steps of an extraction that may fail: the metadata request, the
\* download, the creation of the temporary file, the unpacking of an archive,
\* the start of a converter process, and a converter that runs and writes no
\* output.
Converters == {"pdftotext", "pandoc", "catdoc", "unrtf", "7z"}

ExtractFaults == {"none", "get", "download", "create", "unpack", "no_output"} \cup Converters

\* A path under env::temp_dir(): its components; <<>> is the directory itself.
temp_dir == <<>>

\* Path::exists, Path::is_dir
exists(files, p) == p = temp_dir \/ \E e \in files : e.path = p

is_dir(files, p) == p = temp_dir \/ \E e \in files : e.path = p /\ e.dir

\* fs::File::create, fs::create_dir_all, fs::remove_file
create(files, p) == files \cup {[path |-> p, dir |-> FALSE]}

create_dir_all(files, p) == files \cup {[path |-> p, dir |-> TRUE]}

remove_file(files, p) == {e \in files : e.path # p}

\* for p in vec![...] { if p.exists() && !p.is_dir() { fs::remove_file(p) } }
RECURSIVE remove_temporary(_, _)
remove_temporary(files, ps) ==
    IF ps = <<>> THEN files
    ELSE remove_temporary(
             IF exists(files, Head(ps)) /\ ~is_dir(files, Head(ps))
             THEN remove_file(files, Head(ps)) ELSE files,
             Tail(ps))

\* path.to_str() with the temporary directory's own name taken off.
to_str(p) ==
    IF p = <<>> THEN <<>> ELSE <<"/">> \o Head(p) \o
        (IF Len(p) > 1 THEN <<"/">> \o p[2] ELSE <<>>)

\* The file's id in the drive, from its link.
Id == <<"f", "1">>

\* read_pdf: pdftotext writes tempfile.txt, which is read and removed with
\* the PDF.  `text` is what pdftotext makes of the file at `path`.
read_pdf(files, path, text, f) ==
    LET output == <<<<"t", "e", "m", "p", "f", "i", "l", "e", ".", "t", "x", "t">>>>
        ran == IF f = "no_output" THEN files ELSE create(files, output)
        result == IF exists(ran, output) THEN text ELSE <<>>
    IN IF f = "pdftotext" THEN [tmp |-> files, result |-> Err("pdftotext"), failed |-> "pdftotext"]
       ELSE [tmp |-> remove_temporary(ran, <<path, output>>), result |-> Ok(result),
             failed |-> ""]

\* read_rtf and read_doc: the converter's standard output; .output().unwrap()
read_rtf(files, path, text, f) ==
    IF f = "unrtf" THEN [tmp |-> files, result |-> Panic("unrtf"), failed |-> "unrtf"]
    ELSE [tmp |-> remove_temporary(files, <<path>>), result |-> Ok(text), failed |-> ""]

read_doc(files, path, text, f) ==
    IF f = "catdoc" THEN [tmp |-> files, result |-> Panic("catdoc"), failed |-> "catdoc"]
    ELSE [tmp |-> remove_temporary(files, <<path>>), result |-> Ok(text), failed |-> ""]

\* The banner that precedes a member of an archive in the result.
banner(kind, p) ==
    <<"=", "=", "=", "=", "=", "=", "=", "=", "=", "=", "=", "=", "=", "=", "=", "=", "=", "=", "=", "=", "=", "=", " ">> \o kind \o <<" ", "f", "i", "l", "e", ":", " ">> \o to_str(p)
        \o <<" ", "=", "=", "=", "=", "=", "=", "=", "=", "=", "=", "=", "=", "=", "=", "=", "=", "=", "=", "=", "=", "=", "=", "\n", "\n">>

\* The walk over the unpacked members from member i on: the text of each
\* member that looks like candidate materials is appended under its banner.
RECURSIVE walk(_, _, _, _, _, _, _)
walk(files, kind, dir, members, i, result, f) ==
    IF i > Len(members) THEN [tmp |-> files, result |-> Ok(result), failed |-> ""]
    ELSE LET m == members[i]
             p == <<dir, m.name>>
         IN IF ~is_materials(m.name)
            THEN walk(files, kind, dir, members, i + 1, result, f)
            ELSE IF ends_with(m.name, <<".", "p", "d", "f">>)
            THEN \* the `?` of read_pdf returns from get_file_contents
                 LET r == read_pdf(files, p, m.text, f)
                 IN IF r.result.kind # "Ok" THEN r
                    ELSE walk(r.tmp, kind, dir, members, i + 1,
                              result \o banner(kind, p) \o r.result.value
                                  \o <<"\n", "\n", "\n">>,
                              "none")
            ELSE walk(files, kind, dir, members, i + 1,
                      result \o banner(kind, p) \o m.text \o <<"\n", "\n", "\n">>, f)

\* The members an unpacker writes under the output directory.
unpacked(files, dir, members) ==
    files \cup {[path |-> <<dir, members[i].name>>, dir |-> FALSE] :
                   i \in 1..Len(members)}

\* The zip branch from member i on: each member is written under zip/, and
\* `output` is left naming the last one written.
RECURSIVE unzip(_, _, _, _, _, _)
unzip(files, members, i, output, result, f) ==
    IF i > Len(members)
    THEN [tmp |-> files, result |-> Ok(result), failed |-> "", output |-> output]
    ELSE LET m == members[i]
             p == <<<<"z", "i", "p">>, m.name>>
             written == create(create_dir_all(files, <<<<"z", "i", "p">>>>), p)
             file_name == <<"/", "t", "m", "p">> \o to_str(p)
         IN IF ~is_materials(file_name)
            THEN unzip(written, members, i + 1, p, result, f)
            ELSE IF ends_with(m.name, <<".", "p", "d", "f">>)
            THEN LET r == read_pdf(written, p, m.text, f)
                 IN IF r.result.kind # "Ok"
                    THEN [tmp |-> r.tmp, result |-> r.result, failed |-> r.failed,
                          output |-> p]
                    ELSE unzip(r.tmp, members, i + 1, p,
                               result \o banner(<<"z", "i", "p">>, p) \o r.result.value
                                   \o <<"\n", "\n", "\n">>,
                               "none")
            ELSE unzip(written, members, i + 1, p,
                       result \o banner(<<"z", "i", "p">>, p) \o m.text \o <<"\n", "\n", "\n">>, f)

\* The end of get_file_contents: the temporary files are removed and the
\* trimmed result returned.
finish(files, path, output, result) ==
    [tmp |-> remove_temporary(files, <<path, output>>), result |-> Ok(trim(result)),
     failed |-> ""]

\* The branch of an archive that is unpacked under temp_dir/{id}.
archive_contents(files, file, suffix, kind, f) ==
    LET path == <<Id \o suffix>>
        output == <<Id>>
        created == create(files, path)
        \* an unpacker that runs and writes nothing leaves the directory empty
        members == IF f = "no_output" THEN <<>> ELSE file.members
        unpack == unpacked(create_dir_all(created, output), Id, members)
        r == walk(unpack, kind, Id, members, 1, <<>>, f)
    IN IF f = "download" THEN [tmp |-> files, result |-> Err("download"), failed |-> "download"]
       ELSE IF f = "create" THEN [tmp |-> files, result |-> Err("create"), failed |-> "create"]
       ELSE IF kind = <<"7", "z">> /\ f = "7z"
       THEN [tmp |-> create_dir_all(created, output), result |-> Err("7z"), failed |-> "7z"]
       ELSE IF kind # <<"7", "z">> /\ f = "unpack"
       THEN [tmp |-> created, result |-> Err("unpack"), failed |-> "unpack"]
       ELSE IF r.result.kind # "Ok" THEN r
       ELSE finish(r.tmp, path, output, r.result.value)

\* get_file_contents: the text of the file, by its mime type and name.
get_file_contents(files, file, f) ==
    LET mime_type == file.mime_type
        name == file.name
        downloaded(path) ==
            IF f = "download" THEN [tmp |-> files, result |-> Err("download"), failed |-> "download"]
            ELSE IF f = "create" THEN [tmp |-> files, result |-> Err("create"), failed |-> "create"]
            ELSE [tmp |-> create(files, path), result |-> Ok(path), failed |-> ""]
    IN IF f = "get" THEN [tmp |-> files, result |-> Err("get"), failed |-> "get"]
       ELSE IF mime_type = "application/pdf"
       THEN LET path == <<Id \o <<".", "p", "d", "f">>>>
                d == downloaded(path)
                r == read_pdf(d.tmp, path, file.text, f)
            IN IF d.result.kind # "Ok" THEN d
               ELSE IF r.result.kind # "Ok" THEN r
               ELSE finish(r.tmp, path, temp_dir, r.result.value)
       ELSE IF mime_type = "text/html"
       THEN IF f = "download" THEN [tmp |-> files, result |-> Err("download"), failed |-> "download"]
            ELSE finish(files, temp_dir, temp_dir, file.text)
       ELSE IF mime_type = "application/vnd.google-apps.document"
       THEN IF f = "download" THEN [tmp |-> files, result |-> Err("download"), failed |-> "download"]
            ELSE finish(files, temp_dir, temp_dir, file.text)
       ELSE IF ends_with(name, <<".", "7", "z">>)
       THEN archive_contents(files, file, <<".", "7", "z">>, <<"7", "z">>, f)
       ELSE IF ends_with(name, <<".", "t", "g", "z">>) \/ ends_with(name, <<".", "t", "a", "r", ".", "g", "z">>)
       THEN archive_contents(files, file, <<".", "t", "a", "r", ".", "g", "z">>, <<"t", "a", "r", "b", "a", "l", "l">>, f)
       ELSE IF ends_with(name, <<".", "t", "a", "r">>)
       THEN archive_contents(files, file, <<".", "t", "a", "r">>, <<"t", "a", "r", "b", "a", "l", "l">>, f)
       ELSE IF ends_with(name, <<".", "z", "i", "p">>)
       THEN LET path == <<Id \o <<".", "z", "i", "p">>>>
                d == downloaded(path)
                r == unzip(d.tmp, file.members, 1, temp_dir, <<>>, f)
            IN IF d.result.kind # "Ok" THEN d
               ELSE IF f = "unpack" THEN [tmp |-> d.tmp, result |-> Err("unpack"), failed |-> "unpack"]
               ELSE IF r.result.kind # "Ok"
               THEN [tmp |-> r.tmp, result |-> r.result, failed |-> r.failed]
               ELSE finish(r.tmp, path, r.output, r.result.value)
       ELSE IF ends_with(name, <<".", "p", "p", "t", "x">>) \/ ends_with(name, <<".", "j", "p", "g">>)
       THEN finish(files, temp_dir, temp_dir, <<>>)
       ELSE IF ends_with(name, <<".", "r", "t", "f">>)
       THEN LET path == <<Id \o <<".", "r", "t", "f">>>>
                d == downloaded(path)
                r == read_rtf(d.tmp, path, file.text, f)
            IN IF d.result.kind # "Ok" THEN d
               ELSE IF r.result.kind # "Ok" THEN r
               ELSE finish(r.tmp, path, temp_dir, r.result.value)
       ELSE IF ends_with(name, <<".", "d", "o", "c">>)
       THEN LET path == <<Id \o <<".", "d", "o", "c">>>>
                d == downloaded(path)
                r == read_doc(d.tmp, path, file.text, f)
            IN IF d.result.kind # "Ok" THEN d
               ELSE IF r.result.kind # "Ok" THEN r
               ELSE finish(r.tmp, path, temp_dir, r.result.value)
       ELSE LET path == <<name>>
                output == <<Id \o <<".", "t", "x", "t">>>>
                d == downloaded(path)
            IN IF d.result.kind # "Ok" THEN d
               \* Err(e) => { warn!("pandoc failed"); return Ok("") }
               ELSE IF f = "pandoc"
               THEN [tmp |-> d.tmp, result |-> Ok(<<>>), failed |-> "pandoc"]
               \* fs::read_to_string(output)? of a file pandoc did not write
               ELSE IF f = "no_output" THEN [tmp |-> d.tmp, result |-> Err("read"), failed |-> "no_output"]
               ELSE finish(create(d.tmp, output), path, output, file.text)

(***************************************************************************)
(* The files an applicant may link to                                      *)
(***************************************************************************)
\* What a converter makes of a file: nothing, or a text with white space
\* around it.
Extracted == {<<>>, <<" ", "H", "i", "\n">>}

\* The members of an archive, in the order of the walk.
MemberNames == {<<"r", "e", "s", "p", "o", "n", "s", "e", "s", ".", "p", "d", "f">>, <<"R", "E", "A", "D", "M", "E", ".", "m", "d">>, <<"n", "o", "t", "e", "s", ".", "t", "x", "t">>}

Members ==
    {m \in UNION {[1..n -> [name : MemberNames, text : {<<"H", "i">>}]] : n \in 0..MaxMembers} :
        \A i, j \in 1..Len(m) : i # j => m[i].name # m[j].name}

ArchiveNames == {<<"m", ".", "7", "z">>, <<"m", ".", "t", "g", "z">>, <<"m", ".", "t", "a", "r", ".", "g", "z">>, <<"m", ".", "t", "a", "r">>, <<"m", ".", "z", "i", "p">>}

DocumentNames == {<<"s", ".", "p", "p", "t", "x">>, <<"p", ".", "j", "p", "g">>, <<"c", "v", ".", "r", "t", "f">>, <<"c", "v", ".", "d", "o", "c">>, <<"c", "v", ".", "o", "d", "t">>}

DriveFiles ==
    [mime_type : {"application/pdf", "text/html", "application/vnd.google-apps.document"},
     name : {<<"c", "v">>}, text : Extracted, members : {<<>>}]
    \cup [mime_type : {"application/octet-stream"}, name : ArchiveNames,
          text : {<<>>}, members : Members]
    \cup [mime_type : {"application/octet-stream"}, name : DocumentNames,
          text : Extracted, members : {<<>>}]

(***************************************************************************)
(* Question segmentation: parse_question and parse_materials               *)
(***************************************************************************)
\* A pattern is the sequence of its literal pieces; between two pieces
\* stands the greedy wildcard (?s:.*).  The pattern "" has no piece.
occurs(text, piece, pos) ==
    /\ pos + Len(piece) - 1 <= Len(text)
    /\ text[pos] = piece[1]
    /\ SubSeq(text, pos, pos + Len(piece) - 1) = piece

\* Whether pieces k.. can match with piece k at pos.
RECURSIVE feasible(_, _, _, _)
feasible(text, pieces, k, pos) ==
    /\ occurs(text, pieces[k], pos)
    /\ \/ k = Len(pieces)
       \/ \E p \in (pos + Len(pieces[k]))..Len(text) : feasible(text, pieces, k + 1, p)

\* Where pieces k.. match, piece k being at pos: each wildcard takes the
\* longest text that lets the rest match.
RECURSIVE greedy(_, _, _, _)
greedy(text, pieces, k, pos) ==
    IF k = Len(pieces) THEN <<pos>>
    ELSE CHOOSE r \in
             {<<pos>> \o greedy(text, pieces, k + 1,
                                CHOOSE p \in nexts : \A q \in nexts : q <= p) :
                 nexts \in {{p \in (pos + Len(pieces[k]))..Len(text) :
                                feasible(text, pieces, k + 1, p)}}} : TRUE

\* Regex::new(q1 + "(?s)(.*)" + q2).captures(text): the bounds of group 1 in
\* the leftmost match, None when there is no match.
captures(q1, q2, text) ==
    CHOOSE r \in
        {IF starts = {} THEN None
         ELSE CHOOSE m \in
                  {Some([from |-> where[Len(q1)] + Len(q1[Len(q1)]),
                         to |-> IF q2 = <<>> THEN Len(text)
                                ELSE where[Len(q1) + 1] - 1]) :
                      where \in {greedy(text, q1 \o q2, 1,
                                        CHOOSE x \in starts : \A y \in starts : x <= y)}} :
                  TRUE :
            starts \in {{s \in 1..Len(text) : feasible(text, q1 \o q2, 1, s)}}} : TRUE

\* str::trim_start_matches(':')
RECURSIVE trim_start_matches(_, _)
trim_start_matches(s, c) ==
    IF s # <<>> /\ Head(s) = c THEN trim_start_matches(Tail(s), c) ELSE s

\* What parse_question makes of the text of group 1.
strip_boilerplate(val) ==
    replace(replace(replace(replace(val,
        <<"_", "_", "_", "_", "_", "_", "_", "_", "_", "_", "_", "_", "_", "_", "_", "_">>, <<>>),
        <<"O", "x", "i", "d", "e", " ", "C", "a", "n", "d", "i", "d", "a", "t", "e", " ", "M", "a", "t", "e", "r", "i", "a", "l", "s", ":", " ", "T", "e", "c", "h", "n", "i", "c", "a", "l", " ", "P", "r", "o", "g", "r", "a", "m", " ", "M", "a", "n", "a", "g", "e", "r">>, <<>>),
        <<"O", "x", "i", "d", "e", " ", "C", "a", "n", "d", "i", "d", "a", "t", "e", " ", "M", "a", "t", "e", "r", "i", "a", "l", "s">>, <<>>),
        <<"W", "o", "r", "k", " ", "s", "a", "m", "p", "l", "e", "(", "s", ")">>, <<>>)

clean(val) == trim(trim_start_matches(strip_boilerplate(val), ":"))

parse_question(q1, q2, materials_contents) ==
    CHOOSE s \in
        {IF is_some(q)
         THEN clean(SubSeq(materials_contents, unwrap(q).from, unwrap(q).to))
         ELSE <<>> :
            q \in {captures(q1, q2, materials_contents)}} : TRUE

QUESTION_VALUES_IN_TENSION ==
    <<<<"F">>, <<"r", " ", "a", " ", "p", "a", "i", "r", " ", "o", "f", " ", "O", "x", "i", "d", "e">>, <<"s", " ", "v", "a", "l", "u", "e", "s">>, <<"d", "e", "s", "c", "r", "i", "b", "e", " ", "a", " ", "t", "i", "m", "e", " ", "i", "n", " ", "w", "h", "i", "c">>,
      <<"t", "h", "e", " ", "t", "w">>, <<"v", "a", "l", "u", "e", "s">>, <<"t", "e", "n", "s", "i", "o">>, <<"f", "o", "r">>, <<"y", "o", "u", "r">>, <<"a", "n", "d", " ", "h", "o", "w", " ", "y", "o">>,
      <<"r", "e", "s", "o", "l", "v", "e", "d", " ", "i", "t", ".">>>>

QUESTION_WHY_OXIDE ==
    <<<<"W">>, <<"y">>, <<"d", "o">>, <<"y", "o", "u">>, <<"w", "a", "n", "t">>, <<"t", "o">>, <<"w", "o", "r", "k">>, <<"f", "o", "r">>,
      <<"O", "x", "i", "d", "e", "?">>>>

\* The candidates of a segment, in the order they are tried.
WorkSamples ==
    <<[q1 |-> <<<<"W", "o", "r", "k", " ", "s", "a", "m", "p", "l", "e", "(", "s", ")">>>>, q2 |-> <<<<"W", "r", "i", "t", "i", "n", "g", " ", "s", "a", "m", "p", "l", "e", "s">>>>],
      [q1 |-> <<<<"I", "f">>, <<"h", "i", "s", " ", "w", "o", "r", "k", " ", "i", "s", " ", "e", "n", "t", "i", "r", "e", "l", "y", " ", "p", "r", "o", "p", "r", "i", "e", "t", "a", "r", "y">>,
                <<"p", "l", "e", "a", "s", "e", " ", "d", "e", "s", "c", "r", "i", "b", "e", " ", "i", "t", " ", "a", "s", " ", "f", "u", "l", "l", "y", " ", "a", "s", " ", "y">>,
                <<"c", "a", "n", ",", " ", "p", "r", "o", "v", "i", "d", "i", "n", "g", " ", "n", "e", "c", "e", "s", "s", "a", "r", "y", " ", "c", "o", "n", "t", "e", "x", "t", ".">>>>,
       q2 |-> <<<<"W", "r", "i", "t", "i", "n", "g", " ", "s", "a", "m", "p", "l", "e", "s">>>>],
      [q1 |-> <<<<"W", "h", "a", "t", " ", "w", "o", "u", "l", "d", " ", "y", "o", "u", " ", "h", "a", "v", "e", " ", "d", "o", "n", "e", " ", "d", "i", "f", "f", "e", "r", "e", "n", "t", "l", "y", "?">>>>,
       q2 |-> <<<<"E", "x", "p", "l", "o", "r", "a", "t", "o", "r", "y", " ", "s", "a", "m", "p", "l", "e", "s">>>>],
      [q1 |-> <<<<"S", "o", "m", "e", " ", "q", "u", "e", "s", "t", "i", "o", "n", "s">>, <<"o", " ", "h", "a", "v", "e", " ", "i", "n", " ", "m", "i", "n", "d", " ", "a", "s", " ", "y", "o", "u", " ", "d", "e", "s", "c", "r", "i", "b", "e", " ", "t", "h", "e", "m", ":">>>>,
       q2 |-> <<<<"E", "x", "p", "l", "o", "r", "a", "t", "o", "r", "y", " ", "s", "a", "m", "p", "l", "e", "s">>>>],
      [q1 |-> <<<<"W", "o", "r", "k", " ", "s", "a", "m", "p", "l", "e", "s">>>>, q2 |-> <<<<"E", "x", "p", "l", "o", "r", "a", "t", "o", "r", "y", " ", "s", "a", "m", "p", "l", "e", "s">>>>],
      [q1 |-> <<<<"d", "e", "s", "i", "g", "n", " ", "s", "a", "m", "p", "l", "e", "(", "s", ")">>>>, q2 |-> <<<<"Q", "u", "e", "s", "t", "i", "o", "n", "n", "a", "i", "r", "e">>>>]>>

WritingSamples ==
    <<[q1 |-> <<<<"W", "r", "i", "t", "i", "n", "g", " ", "s", "a", "m", "p", "l", "e", "(", "s", ")">>>>, q2 |-> <<<<"A", "n", "a", "l", "y", "s", "i", "s", " ", "s", "a", "m", "p", "l", "e", "s">>>>],
      [q1 |-> <<<<"P", "l", "e", "a", "s", "e", " ", "s", "u", "b", "m", "i", "t", " ", "a", "t", " ", "l", "e", "a", "s", "t", " ", "o", "n", "e", " ", "w", "r", "i", "t", "i", "n", "g", " ", "s", "a", "m", "p", "l", "e", " ", "(", "a", "n", "d", " ", "n", "o", " ", "m", "o", "r", "e", " ", "t", "h", "a">>,
                <<"t", "h", "r", "e", "e", ")", " ", "t", "h", "a", "t", " ", "y", "o", "u", " ", "f", "e", "e", "l", " ", "r", "e", "p", "r", "e", "s", "e", "n", "t">>, <<"y", "o", "u">>, <<"p", "r", "o", "v", "i", "d", "i", "n">>,
                <<"l", "i", "n", "k", "s", " ", "i", "f">>, <<"n", "e", "c", "e", "s", "s", "a", "r", "y", ".">>>>,
       q2 |-> <<<<"A", "n", "a", "l", "y", "s", "i", "s", " ", "s", "a", "m", "p", "l", "e", "s">>>>],
      [q1 |-> <<<<"W", "r", "i", "t", "i", "n", "g", " ", "s", "a", "m", "p", "l", "e", "s">>>>, q2 |-> <<<<"A", "n", "a", "l", "y", "s", "i", "s", " ", "s", "a", "m", "p", "l", "e", "s">>>>],
      [q1 |-> <<<<"W", "r", "i", "t", "i", "n", "g", " ", "s", "a", "m", "p", "l", "e", "(", "s", ")">>>>, q2 |-> <<<<"C", "o", "d", "e", " ", "a", "n", "d", "/", "o", "r", " ", "d", "e", "s", "i", "g", "n", " ", "s", "a", "m", "p", "l", "e">>>>]>>

\* The first candidate from i on whose segment is not empty; the last
\* candidate's segment when all are empty.
RECURSIVE first_non_empty(_, _, _)
first_non_empty(candidates, i, materials_contents) ==
    CHOOSE r \in
        {IF segment # <<>> \/ i = Len(candidates) THEN segment
         ELSE first_non_empty(candidates, i + 1, materials_contents) :
            segment \in {parse_question(candidates[i].q1, candidates[i].q2,
                                        materials_contents)}} : TRUE

\* parse_materials, for the segments the model carries.
parse_materials(a) ==
    [a EXCEPT
        !.work_samples = first_non_empty(WorkSamples, 1, a.materials_contents),
        !.writing_samples = first_non_empty(WritingSamples, 1, a.materials_contents),
        !.question_values_in_tension =
            parse_question(QUESTION_VALUES_IN_TENSION, QUESTION_WHY_OXIDE,
                           a.materials_contents),
        !.question_why_oxide =
            parse_question(QUESTION_WHY_OXIDE, <<>>, a.materials_contents)]

(***************************************************************************)
(* Materials texts: headings of the form and answers, in any order         *)
(***************************************************************************)
Blocks ==
    {<<"W", "o", "r", "k", " ", "s", "a", "m", "p", "l", "e", "(", "s", ")">>, <<"W", "r", "i", "t", "i", "n", "g", " ", "s", "a", "m", "p", "l", "e", "s">>, <<"A", "n", "a", "l", "y", "s", "i", "s", " ", "s", "a", "m", "p", "l", "e", "s">>,
     <<"\n", "H", "e", "l", "l", "o", " ", "w", "o", "r", "l", "d", "\n">>, <<" ", ":">>, <<"W", "h", "y", " ", "d", "o", " ", "y", "o", "u", " ", "w", "a", "n", "t", " ", "t", "o", " ", "w", "o", "r", "k", " ", "f", "o", "r", " ", "O", "x", "i", "d", "e", "?">>}

RECURSIVE concat(_)
concat(blocks) == IF blocks = <<>> THEN <<>> ELSE Head(blocks) \o concat(Tail(blocks))

Texts == {concat(b) : b \in UNION {[1..n -> Blocks] : n \in 0..MaxBlocks}}

\* The calls of parse_question the standalone checks make: the first
\* candidate of the work samples, the third of the writing samples, and the
\* last question.
Calls ==
    <<WorkSamples[1], WritingSamples[3], [q1 |-> QUESTION_WHY_OXIDE, q2 |-> <<>>]>>

(***************************************************************************)
(* applicant_status::Status and its string forms                           *)
(***************************************************************************)
NeedsToBeTriaged == "Needs to be triaged"
NextSteps == "Next steps"
Interviewing == "Interviewing"
Declined == "Declined"
Deferred == "Deferred"
GivingOffer == "Giving offer"
Onboarding == "Onboarding"
Hired == "Hired"
Contractor == "Contractor"

Statuses == {NeedsToBeTriaged, NextSteps, Interviewing, Declined, Deferred,
             GivingOffer, Onboarding, Hired, Contractor}

\* The raw status cells a spreadsheet row may hold.
RawStatuses == {"", "next steps", "giving offer", "declined"}

\* Status::from_str(raw).unwrap_or_default()
from_str(raw) ==
    CASE raw = "next steps" -> NextSteps
      [] raw = "interviewing" -> Interviewing
      [] raw = "declined" -> Declined
      [] raw = "deferred" -> Deferred
      [] raw = "giving offer" -> GivingOffer
      [] raw = "onboarding" -> Onboarding
      [] raw = "hired" -> Hired
      [] raw = "contractor" -> Contractor
      [] OTHER -> NeedsToBeTriaged

(***************************************************************************)
(* The Applicant record (the fields the reconciliation logic reads)        *)
(***************************************************************************)
AllInterviews == [i \in 1..(MaxInterviews + 1) |-> i]
InterviewLists == {SubSeq(AllInterviews, 1, n) : n \in 0..MaxInterviews}

Reviewer == "r1"
OtherReviewer == "r2"
\* The reviewers of the company: one more than a pass of
\* update_applications_with_scoring_forms can remove from the scorers.
Reviewers == <<Reviewer, OtherReviewer, "r3", "r4", "r5", "r6">>
ScorerLists == {<<>>, <<Reviewer>>, Reviewers}

\* The spreadsheet every tracked row belongs to; an applicant who applied
\* through the form has no sheet.
TrackingSheet == "sheet"

\* The scoring counters of an applicant.
Counters ==
    {"scoring_evaluations_count", "scoring_enthusiastic_yes_count",
     "scoring_yes_count", "scoring_pass_count", "scoring_no_count",
     "scoring_not_applicable_count", "scoring_insufficient_experience_count",
     "scoring_inapplicable_experience_count",
     "scoring_job_function_yet_needed_count",
     "scoring_underwhelming_materials_count"}

\* The counter each evaluation prefix feeds.
Prefixes ==
    [scoring_enthusiastic_yes_count |-> <<"e", "m", "p", "h", "a", "t", "i", "c", " ", "y", "e", "s", ":">>,
     scoring_yes_count |-> <<"y", "e", "s", ":">>,
     scoring_pass_count |-> <<"p", "a", "s", "s", ":">>,
     scoring_no_count |-> <<"n", "o", ":">>,
     scoring_not_applicable_count |-> <<"n", "/", "a", ":">>,
     scoring_insufficient_experience_count |->
         <<"i", "n", "s", "u", "f", "f", "i", "c", "i", "e", "n", "t", " ", "e", "x", "p", "e", "r", "i", "e", "n", "c", "e">>,
     scoring_inapplicable_experience_count |->
         <<"i", "n", "a", "p", "p", "l", "i", "c", "a", "b", "l", "e", " ", "e", "x", "p", "e", "r", "i", "e", "n", "c", "e">>,
     scoring_job_function_yet_needed_count |->
         <<"j", "o", "b", " ", "f", "u", "n", "c", "t", "i", "o", "n", " ", "n", "o", "t", " ", "y", "e", "t", " ", "n", "e", "e", "d", "e", "d">>,
     scoring_underwhelming_materials_count |->
         <<"u", "n", "d", "e", "r", "w", "h", "e", "l", "m", "i", "n", "g", " ", "m", "a", "t", "e", "r", "i", "a", "l", "s">>]

\* The records of the reviews table: who reviewed, and the evaluation typed
\* into the form.
Reviews ==
    {[reviewer |-> Reviewer, evaluation |-> <<"Y", "e", "s", ":", " ", "o", "k">>],
     [reviewer |-> OtherReviewer, evaluation |-> <<"I", "n", "s", "u", "f", "f", "i", "c", "i", "e", "n", "t", " ", "e", "x", "p", "e", "r", "i", "e", "n", "c", "e">>]}

NoApplicant == [status |-> ""]

\* No file behind either link.
NoDrive == [resume |-> None, materials |-> None]

NoCheckr == [candidate |-> FALSE, invitations |-> 0]

\* No users row matches the applicant.  start_date None is default_date().
NoEmployee ==
    [exists |-> FALSE, home_address_street_1 |-> <<>>, home_address_city |-> <<>>,
     start_date |-> None]

\* The address the human-resources system keeps for an employee.
HrStreet == <<"1", " ", "O", "a", "k">>
HrCity == <<"E", "l", "y">>

\* The users rows that may match the applicant: none, or an employee with or
\* without an address and with or without a start date.
Employees ==
    {NoEmployee} \cup
    [exists : {TRUE},
     home_address_street_1 : {<<>>, HrStreet},
     home_address_city : {<<>>, HrCity},
     start_date : {None} \cup {Some(x) : x \in Days}]

\* What the signer typed into the address tabs of the offer.
FormStreet == <<" ", "2", " ", "E", "l", "m", " ">>
FormCity == <<"A", "m", "e", "s">>

DOCUSIGN_OFFER_TEMPLATE == "Employee Offer Letter (US)"
DOCUSIGN_PIIA_TEMPLATE == "Employee Agreements (Mediation, PIIA)"

\* The templates the provider lists when it holds both.
Templates ==
    <<[name |-> DOCUSIGN_OFFER_TEMPLATE, template_id |-> "t-offer"],
      [name |-> DOCUSIGN_PIIA_TEMPLATE, template_id |-> "t-piia"]>>

\* What ds.list_templates() may return: both templates, one of them, none.
TemplateLists ==
    {Templates, <<Templates[1]>>, <<Templates[2]>>, <<>>}

NoProv ==
    [offer |-> [n |-> 0, status |-> "", start_date |-> None],
     piia |-> [n |-> 0, status |-> "", start_date |-> None],
     templates |-> Templates]

\* The day an application was submitted when a life does not vary it:
\* twenty days before the first pass.
Submitted == 0 - 20

DefaultApplicant ==
    [status |-> NeedsToBeTriaged,
     start_date |-> None,
     interviews |-> <<>>,
     scorers |-> <<>>,
     scorers_completed |-> <<>>,
     link_to_reviews |-> <<>>,
     scoring_evaluations_count |-> 0,
     scoring_enthusiastic_yes_count |-> 0,
     scoring_yes_count |-> 0,
     scoring_pass_count |-> 0,
     scoring_no_count |-> 0,
     scoring_not_applicable_count |-> 0,
     scoring_insufficient_experience_count |-> 0,
     scoring_inapplicable_experience_count |-> 0,
     scoring_job_function_yet_needed_count |-> 0,
     scoring_underwhelming_materials_count |-> 0,
     sheet_id |-> "",
     docusign_envelope_id |-> 0,
     docusign_envelope_status |-> "",
     docusign_piia_envelope_id |-> 0,
     docusign_piia_envelope_status |-> "",
     criminal_background_check_status |-> "",
     motor_vehicle_background_check_status |-> "",
     offer_created |-> None,
     offer_completed |-> None,
     piia_envelope_created |-> None,
     piia_envelope_completed |-> None,
     country_code |-> "",
     submitted_time |-> Submitted,
     resume_contents |-> <<>>,
     materials_contents |-> <<>>,
     work_samples |-> <<>>,
     writing_samples |-> <<>>,
     question_values_in_tension |-> <<>>,
     question_why_oxide |-> <<>>]

(***************************************************************************)
(* What an operation did                                                   *)
(***************************************************************************)
NoOut ==
    [op |-> "none",
     err |-> FALSE,
     failed |-> "",            \* the step whose `?` returned the error
     before |-> "",            \* the status a standalone derivation call started from
     status_changed |-> 0,     \* send_slack_notification_status_changed
     offer_changed |-> 0,      \* send_slack_notification_docusign_offer_status_changed
     piia_changed |-> 0,       \* send_slack_notification_docusign_piia_status_changed
     create_offer |-> 0,       \* create_envelope calls, offer template
     create_piia |-> 0,        \* create_envelope calls, agreements template
     create_requests |-> <<>>, \* the template id of each create_envelope request
     start_changed |-> 0,      \* send_slack_notification_start_date_changed
     bg_changed |-> 0,         \* send_slack_notification_background_check_status_changed
     onboarded |-> 0,          \* GivingOffer -> Onboarding transitions
     invitations |-> 0,        \* create_invitation calls
     reviews_deleted |-> 0,    \* review records deleted from the reviews table
     warned |-> 0,             \* warn!: an applicant's error logged, the loop going on
     processed |-> <<>>,       \* the applicants a driver's loop has reached
     result |-> Ok(<<>>),      \* what a standalone call returned
     tmp_before |-> {},        \* the temporary directory when the call started
     extractions |-> 0,        \* get_file_contents calls
     segmented |-> 0,          \* parse_materials calls
     call |-> 0,               \* which call of parse_question a standalone call made
     captured |-> None]        \* the bounds of group 1 in its match

(***************************************************************************)
(* Status derivation                                                       *)
(***************************************************************************)
\* Applicant::update_status up to its `if send_notification`: the applicant
\* with its new status, and the send_notification flag.
update_status_rule2_any_status(a, now) ==
    LET rule1 == Len(a.interviews) > 1
                 /\ (a.status = NextSteps \/ a.status = NeedsToBeTriaged)
        s1 == IF rule1 THEN Interviewing ELSE a.status
        rule2 == is_some(a.start_date) /\ unwrap(a.start_date) <= now
    IN [self |-> [a EXCEPT !.status = IF rule2 THEN Hired ELSE s1],
        send_notification |-> (rule1 \/ rule2)]

update_status_notify_always(a, now) ==
    LET rule1 == Len(a.interviews) > 1
                 /\ (a.status = NextSteps \/ a.status = NeedsToBeTriaged)
        s1 == IF rule1 THEN Interviewing ELSE a.status
        rule2 == (s1 = Onboarding \/ s1 = GivingOffer)
                 /\ is_some(a.start_date) /\ unwrap(a.start_date) <= now
    IN [self |-> [a EXCEPT !.status = IF rule2 THEN Hired ELSE s1],
        send_notification |-> TRUE]

update_status(a, now) ==
    LET rule1 == Len(a.interviews) > 1
                 /\ (a.status = NextSteps \/ a.status = NeedsToBeTriaged)
        n1 == IF rule1 THEN a.status # Interviewing ELSE FALSE
        s1 == IF rule1 THEN Interviewing ELSE a.status
        rule2 == (s1 = Onboarding \/ s1 = GivingOffer)
                 /\ is_some(a.start_date)
                 /\ unwrap(a.start_date) <= now
        n2 == IF rule2 THEN s1 # Hired ELSE n1
        s2 == IF rule2 THEN Hired ELSE s1
    IN [self |-> [a EXCEPT !.status = s2], send_notification |-> n2]

\* The derivation step of NewApplicant::parse_from_row_with_columns.
derive_status_after_start_only(status, interviews, start_date, now) ==
    LET s1 == IF Len(interviews) > 1
                 /\ (status = NextSteps \/ status = NeedsToBeTriaged)
              THEN Interviewing ELSE status
    IN IF (s1 = Onboarding \/ s1 = GivingOffer)
          /\ is_some(start_date) /\ unwrap(start_date) < now
       THEN Hired ELSE s1

derive_status_next_steps_only(status, interviews, start_date, now) ==
    LET s1 == IF Len(interviews) > 1 /\ status = NextSteps
              THEN Interviewing ELSE status
    IN IF (s1 = Onboarding \/ s1 = GivingOffer)
          /\ is_some(start_date)
          /\ unwrap(start_date) <= now
       THEN Hired ELSE s1

derive_status(status, interviews, start_date, now) ==
    LET s1 == IF Len(interviews) > 1
                 /\ (status = NextSteps \/ status = NeedsToBeTriaged)
              THEN Interviewing ELSE status
    IN IF (s1 = Onboarding \/ s1 = GivingOffer)
          /\ is_some(start_date)
          /\ unwrap(start_date) <= now
       THEN Hired ELSE s1

(***************************************************************************)
(* update(db): the row is written and mirrored to the workspace, where     *)
(* update_airtable_record keeps the workspace's own linked fields.         *)
(***************************************************************************)
update_airtable_record(a, record) ==
    [a EXCEPT !.interviews = record.interviews,
              !.link_to_reviews = record.link_to_reviews]

(***************************************************************************)
(* An operation in progress: the applicant in memory, the stores it        *)
(* writes, what it did so far, and whether it is still running (ok) or     *)
(* has returned an error.                                                  *)
(***************************************************************************)
Faults == {"none", "create_envelope", "get_envelope", "update", "notify", "checkr"}

World(a, name) ==
    [self |-> a, db |-> db, at |-> at, prov |-> prov, checkr |-> checkr,
     employee |-> employee, tmp |-> tmp,
     out |-> [NoOut EXCEPT !.op = name],
     ok |-> TRUE]

\* `?` on an Err: the operation returns, nothing after it runs.
fail(world, step) ==
    CHOOSE bound \in {(
        [w EXCEPT !.ok = FALSE, !.out.err = TRUE, !.out.failed = step]
        ) : w \in {world}} : TRUE

\* self.update(db).await?
update(world, f) ==
    CHOOSE bound \in {(
        IF ~w.ok THEN w
        ELSE IF f = "update" THEN fail(w, "update")
        ELSE [w EXCEPT !.db = w.self,
                       !.at = update_airtable_record(w.self, w.at)]
        ) : w \in {world}} : TRUE

send_slack_notification_status_changed(world, f) ==
    CHOOSE bound \in {(
        IF ~w.ok THEN w
        ELSE IF f = "notify" THEN fail(w, "notify")
        ELSE [w EXCEPT !.out.status_changed = @ + 1]
        ) : w \in {world}} : TRUE

send_slack_notification_docusign_offer_status_changed(world, f) ==
    CHOOSE bound \in {(
        IF ~w.ok THEN w
        ELSE IF f = "notify" THEN fail(w, "notify")
        ELSE [w EXCEPT !.out.offer_changed = @ + 1]
        ) : w \in {world}} : TRUE

send_slack_notification_docusign_piia_status_changed(world, f) ==
    CHOOSE bound \in {(
        IF ~w.ok THEN w
        ELSE IF f = "notify" THEN fail(w, "notify")
        ELSE [w EXCEPT !.out.piia_changed = @ + 1]
        ) : w \in {world}} : TRUE

send_slack_notification_start_date_changed(world, f) ==
    CHOOSE bound \in {(
        IF ~w.ok THEN w
        ELSE IF f = "notify" THEN fail(w, "notify")
        ELSE [w EXCEPT !.out.start_changed = @ + 1]
        ) : w \in {world}} : TRUE

send_slack_notification_background_check_status_changed(world, f) ==
    CHOOSE bound \in {(
        IF ~w.ok THEN w
        ELSE IF f = "notify" THEN fail(w, "notify")
        ELSE [w EXCEPT !.out.bg_changed = @ + 1]
        ) : w \in {world}} : TRUE

keep_fields_from_airtable(world) ==
    CHOOSE bound \in {(
        [w EXCEPT !.self.scorers = w.at.scorers,
                  !.self.interviews = w.at.interviews,
                  !.self.link_to_reviews = w.at.link_to_reviews,
                  !.self.status = w.at.status,
                  !.self.start_date = w.at.start_date]
        ) : w \in {world}} : TRUE

(***************************************************************************)
(* Background check                                                        *)
(***************************************************************************)
\* The company has a background-check account.  A candidate already listed
\* is invited only while the stored check status is empty; an applicant not
\* yet listed becomes a candidate and is invited.
send_background_check_invitation_unrecorded(w0, f) ==
    LET w1 == keep_fields_from_airtable(w0)
        w2 == [w1 EXCEPT !.checkr = [candidate |-> TRUE,
                                     invitations |-> @.invitations + 1],
                         !.out.invitations = @ + 1]
    IN IF ~w0.ok THEN w0
       ELSE IF f = "checkr" THEN fail(w1, "checkr")
       ELSE IF w1.checkr.candidate /\ w1.self.criminal_background_check_status # ""
       THEN w1
       ELSE send_slack_notification_background_check_status_changed(update(w2, f), f)

send_background_check_invitation(world, f) ==
    CHOOSE bound \in {(
        LET w1 == keep_fields_from_airtable(w0)
            w2 == [w1 EXCEPT !.checkr = [candidate |-> TRUE,
                                         invitations |-> @.invitations + 1],
                             !.out.invitations = @ + 1,
                             !.self.criminal_background_check_status = "requested"]
        IN IF ~w0.ok THEN w0
           ELSE IF f = "checkr" THEN fail(w1, "checkr")
           ELSE IF w1.checkr.candidate /\ w1.self.criminal_background_check_status # ""
           THEN w1
           ELSE send_slack_notification_background_check_status_changed(update(w2, f), f)
        ) : w0 \in {world}} : TRUE

\* The reports the provider holds for a candidate.
Packages == {<<"p", "r", "e", "m", "i", "u", "m", "_", "c", "r", "i", "m", "i", "n", "a", "l">>,
             <<"m", "o", "t", "o", "r", "_", "v", "e", "h", "i", "c", "l", "e", "_", "r", "e", "p", "o", "r", "t">>}

Reports == [package : Packages, status : {"pending", "clear"}]

ReportLists == {<<>>} \cup {<<r>> : r \in Reports}
                   \cup {<<r1, r2>> : r1 \in Reports, r2 \in Reports}

\* refresh_background_checks, for the candidate matching the applicant: each
\* report in turn sets the status of its package, the applicant is updated,
\* and a change of the criminal status is notified.
RECURSIVE refresh_background_checks(_, _, _)
refresh_background_checks(w0, reports, f) ==
    IF ~w0.ok \/ reports = <<>> THEN w0
    ELSE LET report == Head(reports)
             criminal == str_contains(report.package, <<"p", "r", "e", "m", "i", "u", "m", "_", "c", "r", "i", "m", "i", "n", "a", "l">>)
             send_notification ==
                 criminal /\ w0.self.criminal_background_check_status # report.status
             w1 == [w0 EXCEPT
                       !.self.criminal_background_check_status =
                           IF criminal THEN report.status ELSE @,
                       !.self.motor_vehicle_background_check_status =
                           IF str_contains(report.package, <<"m", "o", "t", "o", "r", "_", "v", "e", "h", "i", "c", "l", "e">>)
                           THEN report.status ELSE @]
             w2 == update(w1, f)
         IN refresh_background_checks(
                IF send_notification
                THEN send_slack_notification_background_check_status_changed(w2, f)
                ELSE w2,
                Tail(reports), f)

(***************************************************************************)
(* Offer envelope                                                          *)
(***************************************************************************)
\* The envelope the provider returns for the applicant's stored id.
get_envelope(world, kind) ==
    CHOOSE bound \in {(
        [status |-> w.prov[kind].status, start_date |-> w.prov[kind].start_date,
         street |-> FormStreet, city |-> FormCity]
        ) : w \in {world}} : TRUE

\* The employee's data is taken from the form while the employee has no
\* street address or no start date.
employee_from_form(e) ==
    e.home_address_street_1 = <<>> \/ e.start_date = None

\* The users row matching the applicant, after the completed offer.
update_employee(e, envelope) ==
    IF e.exists /\ employee_from_form(e)
    THEN [e EXCEPT !.home_address_street_1 = trim(envelope.street),
                   !.home_address_city = trim(envelope.city),
                   !.start_date = IF is_some(envelope.start_date)
                                  THEN envelope.start_date ELSE @]
    ELSE e

\* The offer is signed: only an applicant at Giving offer moves to Onboarding.
advance_unless_hired(a) == a.status # Hired

advance_to_onboarding(a) == a.status = GivingOffer

update_applicant_from_docusign_offer_envelope(world, envelope, f) ==
    CHOOSE bound \in {(
        LET w1 == keep_fields_from_airtable(w0)
            send_notification == w1.self.docusign_envelope_status # envelope.status
            w2 == [w1 EXCEPT !.self.docusign_envelope_status = envelope.status]
            \* status GivingOffer: to Onboarding, saved, background check requested
            w3 == IF advance_to_onboarding(w2.self)
                  THEN LET a == update([w2 EXCEPT !.self.status = Onboarding,
                                                  !.out.onboarded = @ + 1], f)
                       IN IF a.ok /\ a.self.criminal_background_check_status = ""
                          THEN send_background_check_invitation(a, f)
                          ELSE a
                  ELSE w2
            \* the employee whose recovery email is the applicant's
            w3e == IF w3.ok
                   THEN [w3 EXCEPT !.employee = update_employee(@, envelope)]
                   ELSE w3
            \* the form's "Start Date" field
            send_notification_start_date ==
                is_some(envelope.start_date) /\ w3e.self.start_date # envelope.start_date
            w4 == IF w3e.ok /\ is_some(envelope.start_date)
                  THEN [w3e EXCEPT !.self.start_date = envelope.start_date]
                  ELSE w3e
            w5 == update(w4, f)
            w6 == IF send_notification
                  THEN send_slack_notification_docusign_offer_status_changed(w5, f)
                  ELSE w5
        IN IF ~w0.ok THEN w0
           ELSE IF envelope.status # "completed"
           THEN LET a == update(w2, f)
                IN IF send_notification
                   THEN send_slack_notification_docusign_offer_status_changed(a, f)
                   ELSE a
           ELSE IF send_notification_start_date
           THEN send_slack_notification_start_date_changed(w6, f)
           ELSE w6
        ) : w0 \in {world}} : TRUE

\* The id of the first listed template with the name, "" when there is none.
get_docusign_template_id(ds, name) ==
    IF \E i \in 1..Len(ds.templates) : ds.templates[i].name = name
    THEN ds.templates[CHOOSE i \in 1..Len(ds.templates) :
                         /\ ds.templates[i].name = name
                         /\ \A j \in 1..(i - 1) : ds.templates[j].name # name].template_id
    ELSE ""

\* new_envelope.template_id = template_id.to_string(): the request handed to
\* ds.create_envelope.
new_envelope(world, template_id) ==
    CHOOSE bound \in {(
        [w EXCEPT !.out.create_requests = Append(@, template_id)]
        ) : w \in {world}} : TRUE

\* ds.create_envelope(new_envelope): a new envelope at the provider, sent.
create_envelope(world, kind) ==
    CHOOSE bound \in {(
        [w EXCEPT !.prov[kind] = [n |-> @.n + 1, status |-> "sent", start_date |-> None]]
        ) : w \in {world}} : TRUE

\* No offer envelope yet, and the applicant is at Giving offer.
offer_not_sent_any_status(a) == a.docusign_envelope_id = 0

offer_not_sent(a) ==
    a.docusign_envelope_id = 0 /\ a.status = GivingOffer

do_docusign_offer(world, template_id, f) ==
    CHOOSE bound \in {(
        LET w1 == keep_fields_from_airtable(w0) IN
        IF ~w0.ok THEN w0
        ELSE IF w1.self.status # GivingOffer /\ w1.self.status # Onboarding
                /\ w1.self.status # Hired
        THEN w1
        ELSE IF offer_not_sent(w1.self)
        THEN IF f = "create_envelope"
             THEN fail(new_envelope(w1, template_id), "offer.create_envelope")
             ELSE LET w2 == create_envelope(new_envelope(w1, template_id), "offer")
                      w3 == [w2 EXCEPT !.out.create_offer = @ + 1,
                                       !.self.docusign_envelope_id = w2.prov.offer.n,
                                       !.self.docusign_envelope_status = w2.prov.offer.status]
                  IN send_slack_notification_docusign_offer_status_changed(update(w3, f), f)
        ELSE IF w1.self.docusign_envelope_id # 0
        THEN IF f = "get_envelope" THEN fail(w1, "offer.get_envelope")
             ELSE update_applicant_from_docusign_offer_envelope(
                      w1, get_envelope(w1, "offer"), f)
        ELSE w1
        ) : w0 \in {world}} : TRUE

(***************************************************************************)
(* Employee agreements envelope                                            *)
(***************************************************************************)
update_applicant_from_docusign_piia_envelope_onboarding(w0, envelope, f) ==
    LET w1 == keep_fields_from_airtable(w0)
        send_notification == w1.self.docusign_piia_envelope_status # envelope.status
        w2 == update([w1 EXCEPT !.self.docusign_piia_envelope_status = envelope.status,
                                !.self.status =
                                    IF envelope.status = "completed" /\ @ = GivingOffer
                                    THEN Onboarding ELSE @], f)
    IN IF ~w0.ok THEN w0
       ELSE IF send_notification
       THEN send_slack_notification_docusign_piia_status_changed(w2, f)
       ELSE w2

update_applicant_from_docusign_piia_envelope_notify_always(w0, envelope, f) ==
    LET w1 == keep_fields_from_airtable(w0)
        w2 == update([w1 EXCEPT !.self.docusign_piia_envelope_status = envelope.status], f)
    IN IF ~w0.ok THEN w0
       ELSE send_slack_notification_docusign_piia_status_changed(w2, f)

update_applicant_from_docusign_piia_envelope(world, envelope, f) ==
    CHOOSE bound \in {(
        LET w1 == keep_fields_from_airtable(w0)
            send_notification == w1.self.docusign_piia_envelope_status # envelope.status
            w2 == update([w1 EXCEPT !.self.docusign_piia_envelope_status = envelope.status], f)
        IN IF ~w0.ok THEN w0
           ELSE IF send_notification
           THEN send_slack_notification_docusign_piia_status_changed(w2, f)
           ELSE w2
        ) : w0 \in {world}} : TRUE

\* No agreements envelope yet, and the applicant is at Giving offer.
piia_not_sent(a) ==
    a.docusign_piia_envelope_id = 0 /\ a.status = GivingOffer

do_docusign_piia_status_first(w0, template_id, f) ==
    LET w1 == keep_fields_from_airtable(w0) IN
    IF ~w0.ok THEN w0
    ELSE IF w1.self.status # GivingOffer /\ w1.self.status # Onboarding
            /\ w1.self.status # Hired
    THEN w1
    ELSE IF piia_not_sent(w1.self)
    THEN IF f = "create_envelope"
         THEN fail(update([new_envelope(w1, template_id)
                              EXCEPT !.self.docusign_piia_envelope_status = "created"],
                          "none"),
                   "piia.create_envelope")
         ELSE LET w2 == create_envelope(new_envelope(w1, template_id), "piia")
                  w3 == [w2 EXCEPT !.out.create_piia = @ + 1,
                                   !.self.docusign_piia_envelope_id = w2.prov.piia.n,
                                   !.self.docusign_piia_envelope_status = w2.prov.piia.status]
              IN send_slack_notification_docusign_piia_status_changed(update(w3, f), f)
    ELSE IF w1.self.docusign_piia_envelope_id # 0
    THEN IF f = "get_envelope" THEN fail(w1, "piia.get_envelope")
         ELSE update_applicant_from_docusign_piia_envelope(
                  w1, get_envelope(w1, "piia"), f)
    ELSE w1

do_docusign_piia(world, template_id, f) ==
    CHOOSE bound \in {(
        LET w1 == keep_fields_from_airtable(w0) IN
        IF ~w0.ok THEN w0
        ELSE IF w1.self.status # GivingOffer /\ w1.self.status # Onboarding
                /\ w1.self.status # Hired
        THEN w1
        ELSE IF piia_not_sent(w1.self)
        THEN IF f = "create_envelope"
             THEN fail(new_envelope(w1, template_id), "piia.create_envelope")
             ELSE LET w2 == create_envelope(new_envelope(w1, template_id), "piia")
                      w3 == [w2 EXCEPT !.out.create_piia = @ + 1,
                                       !.self.docusign_piia_envelope_id = w2.prov.piia.n,
                                       !.self.docusign_piia_envelope_status = w2.prov.piia.status]
                  IN send_slack_notification_docusign_piia_status_changed(update(w3, f), f)
        ELSE IF w1.self.docusign_piia_envelope_id # 0
        THEN IF f = "get_envelope" THEN fail(w1, "piia.get_envelope")
             ELSE update_applicant_from_docusign_piia_envelope(
                      w1, get_envelope(w1, "piia"), f)
        ELSE w1
        ) : w0 \in {world}} : TRUE

(***************************************************************************)
(* Spreadsheet reconciliation                                              *)
(***************************************************************************)
\* The database says Onboarding and the row says Giving offer: the database wins.
keep_onboarding_dropped(a_status, status) == status

keep_onboarding_when_hired(a_status, status) ==
    IF a_status = Hired /\ status = GivingOffer THEN Onboarding ELSE status

keep_onboarding(a_status, status) ==
    IF a_status = Onboarding /\ status = GivingOffer THEN Onboarding ELSE status

\* NewApplicant::parse_from_row_with_columns. `existing` is the database row
\* matching email and sheet id (None when there is none), `record` its
\* workspace record.
parse_from_row_with_columns(row, existing, record, now) ==
    LET raw == from_str(row.raw_status)
        found == is_some(existing)
        a == IF found THEN unwrap(existing) ELSE DefaultApplicant
        status == IF found THEN keep_onboarding(a.status, raw) ELSE raw
        start_date == IF found /\ row.start_date = None /\ is_some(a.start_date)
                      THEN a.start_date ELSE row.start_date
        interviews == IF found THEN record.interviews ELSE <<>>
    IN [status |-> derive_status(status, interviews, start_date, now),
        start_date |-> start_date,
        interviews |-> interviews,
        scorers |-> IF found THEN record.scorers ELSE <<>>,
        scorers_completed |-> IF found THEN a.scorers_completed ELSE <<>>,
        link_to_reviews |-> <<>>,
        scoring_evaluations_count |->
            IF found /\ a.scorers # <<>> THEN a.scoring_evaluations_count ELSE 0,
        scoring_enthusiastic_yes_count |->
            IF found /\ a.scorers # <<>> THEN a.scoring_enthusiastic_yes_count ELSE 0,
        scoring_yes_count |->
            IF found /\ a.scorers # <<>> THEN a.scoring_yes_count ELSE 0,
        scoring_pass_count |->
            IF found /\ a.scorers # <<>> THEN a.scoring_pass_count ELSE 0,
        scoring_no_count |->
            IF found /\ a.scorers # <<>> THEN a.scoring_no_count ELSE 0,
        scoring_not_applicable_count |->
            IF found /\ a.scorers # <<>> THEN a.scoring_not_applicable_count ELSE 0,
        scoring_insufficient_experience_count |->
            IF found /\ a.scorers # <<>> THEN a.scoring_insufficient_experience_count ELSE 0,
        scoring_inapplicable_experience_count |->
            IF found /\ a.scorers # <<>> THEN a.scoring_inapplicable_experience_count ELSE 0,
        scoring_job_function_yet_needed_count |->
            IF found /\ a.scorers # <<>> THEN a.scoring_job_function_yet_needed_count ELSE 0,
        scoring_underwhelming_materials_count |->
            IF found /\ a.scorers # <<>> THEN a.scoring_underwhelming_materials_count ELSE 0,
        sheet_id |-> TrackingSheet,
        docusign_envelope_id |->
            IF found /\ a.docusign_envelope_id # 0 THEN a.docusign_envelope_id ELSE 0,
        docusign_envelope_status |->
            IF found /\ a.docusign_envelope_status # ""
            THEN a.docusign_envelope_status ELSE "",
        docusign_piia_envelope_id |->
            IF found /\ a.docusign_piia_envelope_id # 0
            THEN a.docusign_piia_envelope_id ELSE 0,
        docusign_piia_envelope_status |->
            IF found /\ a.docusign_piia_envelope_status # ""
            THEN a.docusign_piia_envelope_status ELSE "",
        criminal_background_check_status |->
            IF found /\ a.criminal_background_check_status # ""
            THEN a.criminal_background_check_status ELSE "",
        motor_vehicle_background_check_status |->
            IF found /\ a.motor_vehicle_background_check_status # ""
            THEN a.criminal_background_check_status ELSE "",
        offer_created |->
            IF found /\ is_some(a.offer_created) THEN a.offer_created ELSE None,
        offer_completed |->
            IF found /\ is_some(a.offer_completed) THEN a.offer_completed ELSE None,
        piia_envelope_created |->
            IF found /\ is_some(a.piia_envelope_created)
            THEN a.piia_envelope_created ELSE None,
        piia_envelope_completed |->
            IF found /\ is_some(a.piia_envelope_completed)
            THEN a.piia_envelope_completed ELSE None,
        country_code |-> IF found /\ a.country_code # "" THEN a.country_code ELSE "",
        submitted_time |-> row.timestamp,
        resume_contents |-> IF found THEN a.resume_contents ELSE <<>>,
        materials_contents |-> IF found THEN a.materials_contents ELSE <<>>,
        work_samples |-> IF found THEN a.work_samples ELSE <<>>,
        writing_samples |-> IF found THEN a.writing_samples ELSE <<>>,
        question_values_in_tension |->
            IF found THEN a.question_values_in_tension ELSE <<>>,
        question_why_oxide |-> IF found THEN a.question_why_oxide ELSE <<>>]

\* applicant.upsert(db): the row matching email and sheet id is replaced and
\* mirrored to the workspace.
upsert(w, f) ==
    IF ~w.ok THEN w
    ELSE IF f = "update" THEN fail(w, "update")
    ELSE [w EXCEPT !.db = w.self,
                   !.at = update_airtable_record(w.self, w.at)]

(***************************************************************************)
(* Scoring                                                                 *)
(***************************************************************************)
contains(list, x) == \E i \in 1..Len(list) : list[i] = x

\* list.iter().position(|r| *r == x)
position(list, x) ==
    CHOOSE i \in 1..Len(list) : list[i] = x /\ \A j \in 1..(i - 1) : list[j] # x

\* list.remove(index)
remove(list, index) ==
    SubSeq(list, 1, index - 1) \o SubSeq(list, index + 1, Len(list))

\* Zero out the values for the scores.
zero_scores(a) ==
    [a EXCEPT !.scoring_evaluations_count = 0,
              !.scoring_enthusiastic_yes_count = 0,
              !.scoring_yes_count = 0,
              !.scoring_pass_count = 0,
              !.scoring_no_count = 0,
              !.scoring_not_applicable_count = 0,
              !.scoring_insufficient_experience_count = 0,
              !.scoring_inapplicable_experience_count = 0,
              !.scoring_job_function_yet_needed_count = 0,
              !.scoring_underwhelming_materials_count = 0]

\* The counters of a row of the responses sheet.
set_scores(a, row) ==
    [a EXCEPT !.scoring_evaluations_count = row.scoring_evaluations_count,
              !.scoring_enthusiastic_yes_count = row.scoring_enthusiastic_yes_count,
              !.scoring_yes_count = row.scoring_yes_count,
              !.scoring_pass_count = row.scoring_pass_count,
              !.scoring_no_count = row.scoring_no_count,
              !.scoring_not_applicable_count = row.scoring_not_applicable_count,
              !.scoring_insufficient_experience_count = row.scoring_insufficient_experience_count,
              !.scoring_inapplicable_experience_count = row.scoring_inapplicable_experience_count,
              !.scoring_job_function_yet_needed_count = row.scoring_job_function_yet_needed_count,
              !.scoring_underwhelming_materials_count = row.scoring_underwhelming_materials_count]

hit(evaluation, prefix) == IF starts_with(evaluation, prefix) THEN 1 ELSE 0

\* One review of the loop of update_reviews_scoring: it is counted, its
\* reviewer has completed and is no longer an assigned scorer.
count_review(a, review) ==
    LET e == to_lowercase(review.evaluation)
        counted ==
            [a EXCEPT !.scoring_evaluations_count = @ + 1,
                  !.scoring_enthusiastic_yes_count = @ + hit(e, Prefixes.scoring_enthusiastic_yes_count),
                  !.scoring_yes_count = @ + hit(e, Prefixes.scoring_yes_count),
                  !.scoring_pass_count = @ + hit(e, Prefixes.scoring_pass_count),
                  !.scoring_no_count = @ + hit(e, Prefixes.scoring_no_count),
                  !.scoring_not_applicable_count = @ + hit(e, Prefixes.scoring_not_applicable_count),
                  !.scoring_insufficient_experience_count = @ + hit(e, Prefixes.scoring_insufficient_experience_count),
                  !.scoring_inapplicable_experience_count = @ + hit(e, Prefixes.scoring_inapplicable_experience_count),
                  !.scoring_job_function_yet_needed_count = @ + hit(e, Prefixes.scoring_job_function_yet_needed_count),
                  !.scoring_underwhelming_materials_count = @ + hit(e, Prefixes.scoring_underwhelming_materials_count)]
    IN [counted EXCEPT
           !.scorers_completed =
               IF contains(@, review.reviewer) THEN @ ELSE Append(@, review.reviewer),
           !.scorers =
               IF contains(@, review.reviewer)
               THEN remove(@, position(@, review.reviewer)) ELSE @]

RECURSIVE count_reviews(_, _)
count_reviews(a, reviews) ==
    IF reviews = <<>> THEN a
    ELSE count_reviews(count_review(a, Head(reviews)), Tail(reviews))

\* Applicant::update_reviews_scoring.  For an applicant at Onboarding or
\* Hired the review records are deleted from the reviews table, which
\* empties the links of the workspace record.
update_reviews_scoring(w0, f) ==
    LET w1 == keep_fields_from_airtable(w0)
        zeroed == zero_scores(w1.self)
        w2 == [w1 EXCEPT !.self = zeroed,
                         !.at.link_to_reviews = <<>>,
                         !.out.reviews_deleted = Len(w1.self.link_to_reviews)]
        w3 == [w1 EXCEPT !.self = count_reviews(zeroed, w1.self.link_to_reviews)]
    IN IF ~w0.ok THEN w0
       ELSE IF w1.self.link_to_reviews = <<>> THEN w1
       ELSE IF w1.self.status = Onboarding \/ w1.self.status = Hired
       THEN update(w2, f)
       ELSE update(w3, f)

\* The rounds of the removal loop of update_applications_with_scoring_forms.
RemovalRounds == 5

\* Each round removes the first assigned scorer who has completed.
RECURSIVE remove_completed(_, _, _)
remove_completed(scorers, completed, rounds) ==
    IF rounds = 0 \/ ~\E i \in 1..Len(scorers) : contains(completed, scorers[i])
    THEN scorers
    ELSE LET index == CHOOSE i \in 1..Len(scorers) :
                          /\ contains(completed, scorers[i])
                          /\ \A j \in 1..(i - 1) : ~contains(completed, scorers[j])
         IN remove_completed(remove(scorers, index), completed, rounds - 1)

(***************************************************************************)
(* The stores after an operation                                           *)
(***************************************************************************)
\* Whether the database and the workspace agree on Onboarding.
settled(w) == w.db.status = Onboarding /\ w.at.status = Onboarding

Commit(w) ==
    /\ db' = w.db
    /\ at' = w.at
    /\ prov' = w.prov
    /\ checkr' = w.checkr
    /\ employee' = w.employee
    /\ out' = w.out
    /\ track' = (track \/ settled(w))
    /\ tmp' = w.tmp
    /\ UNCHANGED <<self, sheet, today, drive>>

(***************************************************************************)
(* Operations                                                              *)
(***************************************************************************)
\* The extraction steps that fail in one expand: the one of the call for the
\* resume, the one of the call for the materials.
NoFaults == <<"none", "none">>

\* The condition under which expand reads the files again; durations are in
\* days.
fresh_any_status(a, now) ==
    \/ now - a.submitted_time < 2
    \/ now - a.submitted_time < 20 /\ a.question_why_oxide = <<>>

fresh(a, now) ==
    /\ \/ now - a.submitted_time < 2
       \/ now - a.submitted_time < 20 /\ a.question_why_oxide = <<>>
    /\ a.status # Declined

\* get_file_contents(drive_client, url) within an operation.
extract(w, file, fx) ==
    CHOOSE e \in
        {[w |-> [w EXCEPT !.tmp = r.tmp, !.out.extractions = @ + 1], r |-> r] :
            r \in {get_file_contents(w.tmp, unwrap(file), fx)}} : TRUE

\* NewApplicant::expand: an error of a step before the gate, or of an
\* extraction, returns from expand.
NewApplicant_expand(w0, f, fx) ==
    IF ~w0.ok THEN w0
    ELSE IF f = "expand" THEN fail(w0, "expand")
    ELSE IF ~fresh(w0.self, today) THEN w0
    ELSE CHOOSE w1 \in
        {IF e1.r.result.kind # "Ok" THEN fail(e1.w, e1.r.failed)
         ELSE CHOOSE w2 \in
             {IF e2.r.result.kind # "Ok" THEN fail(e2.w, e2.r.failed)
              ELSE [e2.w EXCEPT
                       !.self = parse_materials(
                                    [@ EXCEPT !.materials_contents = e2.r.result.value]),
                       !.out.segmented = @ + 1] :
                 e2 \in {extract([e1.w EXCEPT !.self.resume_contents = e1.r.result.value],
                                 drive.materials, fx[2])}} : TRUE :
            e1 \in {extract(w0, drive.resume, fx[1])}} : TRUE

\* Applicant::expand: an error of an extraction is logged and the field
\* keeps its value.
Applicant_expand(w0, f, fx) ==
    IF ~w0.ok THEN w0
    ELSE IF f = "expand" THEN fail(w0, "expand")
    ELSE IF ~fresh(w0.self, today) THEN w0
    ELSE CHOOSE w1 \in
        {IF e1.r.result.kind = "panic" THEN fail(e1.w, e1.r.failed)
         ELSE CHOOSE w2 \in
             {IF e2.r.result.kind = "panic" THEN fail(e2.w, e2.r.failed)
              ELSE [e2.w EXCEPT
                       !.self = parse_materials(
                                    IF e2.r.result.kind = "Ok"
                                    THEN [@ EXCEPT !.materials_contents = e2.r.result.value]
                                    ELSE @),
                       !.out.segmented = @ + 1] :
                 e2 \in {extract(IF e1.r.result.kind = "Ok"
                                 THEN [e1.w EXCEPT !.self.resume_contents = e1.r.result.value]
                                 ELSE e1.w,
                                 drive.materials, fx[2])}} : TRUE :
            e1 \in {extract(w0, drive.resume, fx[1])}} : TRUE

\* One row of refresh_db_applicants.
refresh_db_row(w0, f, fx) ==
    CHOOSE w3 \in
        {upsert(w2, f) :
            w2 \in {NewApplicant_expand(w1, f, fx) :
                       w1 \in {[w0 EXCEPT !.self =
                                   parse_from_row_with_columns(
                                       sheet, Some(w0.db), w0.at, today)]}}} : TRUE

RefreshDbPass(f) ==
    /\ db.sheet_id = TrackingSheet
    /\ Commit(refresh_db_row(World(db, "refresh_db_applicants"), f, NoFaults))

RefreshDb == RefreshDbPass("none")

\* One applicant of refresh_docusign_for_applicants.
refresh_docusign_applicant(w0, f1, f2) ==
    LET offer_template_id == get_docusign_template_id(w0.prov, DOCUSIGN_OFFER_TEMPLATE)
        piia_template_id == get_docusign_template_id(w0.prov, DOCUSIGN_PIIA_TEMPLATE)
    IN CHOOSE w2 \in
           {do_docusign_piia(w1, piia_template_id, f2) :
               w1 \in {do_docusign_offer(w0, offer_template_id, f1)}} : TRUE

DocusignPass(f1, f2) ==
    \E w2 \in {refresh_docusign_applicant(
                   World(db, "refresh_docusign_for_applicants"), f1, f2)} :
        /\ w2.prov.offer.n <= MaxCreates
        /\ w2.prov.piia.n <= MaxCreates
        /\ Commit(w2)

RefreshDocusign == DocusignPass("none", "none")

\* listen_docusign_envelope_update_webhooks, the event naming the offer envelope.
WebhookOfferEvent(f) ==
    LET w0 == World(db, "webhook_offer") IN
    /\ db.docusign_envelope_id # 0
    /\ Commit(update_applicant_from_docusign_offer_envelope(
                  w0, get_envelope(w0, "offer"), f))

WebhookOffer == WebhookOfferEvent("none")

\* listen_docusign_envelope_update_webhooks, the event naming the agreements envelope.
WebhookPiiaEvent(f) ==
    LET w0 == World(db, "webhook_piia") IN
    /\ db.docusign_piia_envelope_id # 0
    /\ Commit(update_applicant_from_docusign_piia_envelope(
                  w0, get_envelope(w0, "piia"), f))

WebhookPiia == WebhookPiiaEvent("none")

\* The rows the responses sheet may hold for an applicant.
ScoringRows ==
    {[DefaultApplicant EXCEPT !.scoring_evaluations_count = n,
                              !.scoring_yes_count = n] : n \in 0..MaxEvals}

\* update_applications_with_scoring_results: the applicant's row of the
\* responses sheet, if it has one, then the sweep over the applicants the
\* database holds at Onboarding or Hired.
ScoringResults ==
    \E rows \in {<<>>} \cup {<<row>> : row \in ScoringRows} :
        LET w0 == World(db, "update_applications_with_scoring_results")
            w1 == IF rows # <<>> /\ db.sheet_id = TrackingSheet
                  THEN update([w0 EXCEPT !.self =
                                  IF @.status = Onboarding \/ @.status = Hired
                                  THEN zero_scores(@)
                                  ELSE set_scores(@, rows[1])], "none")
                  ELSE w0
            w2 == IF w1.db.status = Onboarding \/ w1.db.status = Hired
                  THEN update([w1 EXCEPT !.self = zero_scores(w1.db)], "none")
                  ELSE w1
        IN Commit(w2)

\* One applicant of update_applications_with_scoring_forms: the scorers who
\* completed are read from the row of the sheet of applicants to review.
ScoringForms ==
    \E completed \in ScorerLists :
        LET w0 == World(db, "update_applications_with_scoring_forms")
            w1 == [w0 EXCEPT !.self.scorers = w0.at.scorers,
                             !.self.interviews = w0.at.interviews,
                             !.self.scorers_completed = completed]
            w2 == [w1 EXCEPT !.self.scorers =
                      remove_completed(@, completed, RemovalRounds)]
        IN /\ db.sheet_id = TrackingSheet
           /\ Commit(update(w2, "none"))

\* One applicant of refresh_new_applicants_and_reviews: an applicant who
\* applied through the form.
\* An error of expand is logged and the loop goes on to the next applicant.
refresh_new_applicant(w0, f, fx) ==
    CHOOSE w4 \in
        {CHOOSE w5 \in
             {IF w1.out.failed = "expand"
              THEN [kept EXCEPT !.out.warned = @ + 1]
              ELSE LET r == update_status(w1.self, today)
                       w2 == IF r.send_notification
                             THEN send_slack_notification_status_changed(
                                      update([w1 EXCEPT !.self = r.self], f), f)
                             ELSE w1
                       w3 == update(update(w2, f), f)
                   IN update_reviews_scoring(w3, f) :
                 w1 \in {Applicant_expand(kept, f, fx)}} : TRUE :
            kept \in {keep_fields_from_airtable(w0)}} : TRUE

RefreshNewApplicantPass(f) ==
    /\ db.sheet_id = ""
    /\ Commit(refresh_new_applicant(
                  World(db, "refresh_new_applicants_and_reviews"), f, NoFaults))

RefreshNewApplicant == RefreshNewApplicantPass("none")

(***************************************************************************)
(* The environment: people, the provider, the calendar                     *)
(***************************************************************************)
Env(name) == [NoOut EXCEPT !.op = name]

HumanSetStatus ==
    \E s \in Statuses \ {at.status} :
        /\ at' = [at EXCEPT !.status = s]
        /\ track' = FALSE
        /\ out' = Env("env")
        /\ UNCHANGED <<self, db, sheet, today, prov, checkr, employee, drive, tmp>>

HumanSetInterviews ==
    \E i \in InterviewLists \ {at.interviews} :
        /\ at' = [at EXCEPT !.interviews = i]
        /\ out' = Env("env")
        /\ UNCHANGED <<self, db, sheet, today, prov, checkr, employee, track, drive, tmp>>

HumanSetScorers ==
    \E l \in ScorerLists \ {at.scorers} :
        /\ at' = [at EXCEPT !.scorers = l]
        /\ out' = Env("env")
        /\ UNCHANGED <<self, db, sheet, today, prov, checkr, employee, track, drive, tmp>>

\* A reviewer submits a review: its record is linked to the applicant.
LinkReview ==
    \E review \in Reviews :
        /\ Len(at.link_to_reviews) < MaxReviews
        /\ ~contains(at.link_to_reviews, review)
        /\ at' = [at EXCEPT !.link_to_reviews = Append(@, review)]
        /\ out' = Env("env")
        /\ UNCHANGED <<self, db, sheet, today, prov, checkr, employee, track, drive, tmp>>

\* A person deletes a review record from the reviews table.
UnlinkReview ==
    \E i \in 1..Len(at.link_to_reviews) :
        /\ at' = [at EXCEPT !.link_to_reviews = remove(@, i)]
        /\ out' = Env("env")
        /\ UNCHANGED <<self, db, sheet, today, prov, checkr, employee, track, drive, tmp>>

SheetSetStatus ==
    \E raw \in RawStatuses \ {sheet.raw_status} :
        /\ sheet' = [sheet EXCEPT !.raw_status = raw]
        /\ track' = FALSE
        /\ out' = Env("env")
        /\ UNCHANGED <<self, db, at, today, prov, checkr, employee, drive, tmp>>

\* The signers act on an envelope: sent, delivered, completed.  The offer's
\* form carries the start date the signers filled in, if any.
ProviderAdvance ==
    \E kind \in {"offer", "piia"} :
        /\ prov[kind].n > 0
        /\ \/ /\ prov[kind].status = "sent"
              /\ prov' = [prov EXCEPT ![kind].status = "delivered"]
           \/ /\ prov[kind].status = "delivered"
              /\ \E d \in IF kind = "offer" THEN {None} \cup {Some(x) : x \in Days}
                                            ELSE {None} :
                    prov' = [prov EXCEPT ![kind].status = "completed",
                                         ![kind].start_date = d]
        /\ out' = Env("env")
        /\ UNCHANGED <<self, db, at, sheet, today, checkr, employee, track, drive, tmp>>

AdvanceDay ==
    /\ today < MaxDay
    /\ today' = today + 1
    /\ out' = Env("env")
    /\ UNCHANGED <<self, db, at, sheet, prov, checkr, employee, track, drive, tmp>>

(***************************************************************************)
(* The applicant of a spreadsheet, from its first sighting                 *)
(***************************************************************************)
Init ==
    /\ today = 0
    /\ self = NoApplicant
    /\ sheet \in [raw_status : RawStatuses,
                 start_date : {None} \cup {Some(x) : x \in Days},
                 timestamp : {Submitted}]
    /\ db = parse_from_row_with_columns(sheet, None, DefaultApplicant, today)
    /\ at = db
    /\ prov = NoProv
    /\ checkr = NoCheckr
    /\ employee = NoEmployee
    /\ out = NoOut
    /\ track = FALSE
    /\ drive = NoDrive
    /\ tmp = {}

Next ==
    \/ RefreshDb
    \/ RefreshDocusign
    \/ WebhookOffer
    \/ WebhookPiia
    \/ HumanSetStatus
    \/ SheetSetStatus
    \/ ProviderAdvance
    \/ AdvanceDay

Spec == Init /\ [][Next]_vars

(***************************************************************************)
(* Standalone calls of the two derivations                                 *)
(***************************************************************************)
InitStatus ==
    /\ today \in Now
    /\ \E s \in Statuses, i \in InterviewLists, d \in {None} \cup {Some(x) : x \in Days} :
          self = [DefaultApplicant EXCEPT !.status = s, !.interviews = i, !.start_date = d]
    /\ db = self
    /\ at = self
    /\ sheet = [raw_status |-> "", start_date |-> None, timestamp |-> Submitted]
    /\ prov = NoProv
    /\ checkr = NoCheckr
    /\ employee = NoEmployee
    /\ out = NoOut
    /\ track = FALSE
    /\ drive = NoDrive
    /\ tmp = {}

UpdateStatusCall ==
    LET r == update_status(self, today) IN
    /\ self # NoApplicant
    /\ self' = r.self
    /\ db' = IF r.send_notification THEN r.self ELSE db
    /\ at' = IF r.send_notification THEN update_airtable_record(r.self, at) ELSE at
    /\ out' = [NoOut EXCEPT !.op = "update_status",
                            !.before = self.status,
                            !.status_changed = IF r.send_notification THEN 1 ELSE 0]
    /\ UNCHANGED <<sheet, today, prov, checkr, employee, track, drive, tmp>>

DeriveCall ==
    /\ self # NoApplicant
    /\ self' = [self EXCEPT !.status =
                   derive_status(self.status, self.interviews, self.start_date, today)]
    /\ out' = [NoOut EXCEPT !.op = "derive_status", !.before = self.status]
    /\ UNCHANGED <<db, at, sheet, today, prov, checkr, employee, track, drive, tmp>>

NextStatus == UpdateStatusCall \/ DeriveCall

SpecStatus == InitStatus /\ [][NextStatus]_vars

(***************************************************************************)
(* The same life, with passes whose steps may fail                         *)
(***************************************************************************)
\* A pass in which the provider call, the database write, the chat post or
\* the background-check call fails: the `?` returns from there, and what was
\* done before the failing step stays done.
RefreshDocusignFault ==
    \E f1 \in Faults, f2 \in Faults :
        /\ <<f1, f2>> # <<"none", "none">>
        /\ DocusignPass(f1, f2)

NextFail ==
    \/ RefreshDocusign
    \/ RefreshDocusignFault
    \/ WebhookOffer
    \/ WebhookPiia
    \/ ProviderAdvance

SpecFail == Init /\ [][NextFail]_vars

(***************************************************************************)
(* The envelopes of an applicant at Giving offer, for every list of        *)
(* templates the provider may hold                                         *)
(***************************************************************************)
InitTemplate ==
    /\ today = 0
    /\ self = NoApplicant
    /\ sheet = [raw_status |-> "giving offer", start_date |-> None, timestamp |-> Submitted]
    /\ db = parse_from_row_with_columns(sheet, None, DefaultApplicant, today)
    /\ at = db
    /\ \E l \in TemplateLists : prov = [NoProv EXCEPT !.templates = l]
    /\ checkr = NoCheckr
    /\ employee = NoEmployee
    /\ out = NoOut
    /\ track = FALSE
    /\ drive = NoDrive
    /\ tmp = {}

SpecTemplate == InitTemplate /\ [][NextFail]_vars

(***************************************************************************)
(* Reconciliation with interviews, scorers and the evaluation counter      *)
(***************************************************************************)
NextRecon ==
    \/ RefreshDb
    \/ ScoringResults
    \/ HumanSetInterviews
    \/ HumanSetScorers
    \/ SheetSetStatus
    \/ AdvanceDay

SpecRecon == Init /\ [][NextRecon]_vars

(***************************************************************************)
(* The offer of an applicant who may already be an employee                *)
(***************************************************************************)
InitEmployee ==
    /\ today = 0
    /\ self = NoApplicant
    /\ sheet = [raw_status |-> "giving offer", start_date |-> None, timestamp |-> Submitted]
    /\ db = parse_from_row_with_columns(sheet, None, DefaultApplicant, today)
    /\ at = db
    /\ prov = NoProv
    /\ checkr = NoCheckr
    /\ employee \in Employees
    /\ out = NoOut
    /\ track = FALSE
    /\ drive = NoDrive
    /\ tmp = {}

NextEmployee ==
    \/ RefreshDocusign
    \/ WebhookOffer
    \/ WebhookPiia
    \/ ProviderAdvance

SpecEmployee == InitEmployee /\ [][NextEmployee]_vars

(***************************************************************************)
(* Assigned and completed scorers of an applicant of a sheet               *)
(***************************************************************************)
NextForms ==
    \/ RefreshDb
    \/ ScoringForms
    \/ HumanSetScorers

SpecForms == Init /\ [][NextForms]_vars

(***************************************************************************)
(* Reviews and scoring, for an applicant who applied through the form      *)
(***************************************************************************)
InitReviews ==
    /\ today = 0
    /\ self = NoApplicant
    /\ sheet = [raw_status |-> "", start_date |-> None, timestamp |-> Submitted]
    /\ db = DefaultApplicant
    /\ at = db
    /\ prov = NoProv
    /\ checkr = NoCheckr
    /\ employee = NoEmployee
    /\ out = NoOut
    /\ track = FALSE
    /\ drive = NoDrive
    /\ tmp = {}

NextReviews ==
    \/ RefreshNewApplicant
    \/ ScoringResults
    \/ LinkReview
    \/ UnlinkReview
    \/ HumanSetScorers
    \/ HumanSetStatus

SpecReviews == InitReviews /\ [][NextReviews]_vars

(***************************************************************************)
(* The drivers, over the applicants of the database                        *)
(***************************************************************************)
\* Here db, at, prov, checkr and employee hold one entry per applicant, in
\* the order the drivers iterate.
Applicants == 1..MaxApplicants

Drivers == {"refresh_db_applicants", "refresh_new_applicants_and_reviews",
            "refresh_docusign_for_applicants"}

\* The step that fails for an applicant: none, the database write, or
\* expand, the one step whose error refresh_new_applicants_and_reviews
\* catches.
BatchFaults == {"none", "update", "expand"}

\* The applicants a driver iterates over: the rows of the sheet, the
\* applicants without a sheet id, every applicant.
selected(name, a) ==
    CASE name = "refresh_db_applicants" -> a.sheet_id = TrackingSheet
      [] name = "refresh_new_applicants_and_reviews" -> a.sheet_id = ""
      [] OTHER -> TRUE

\* The body of a driver's loop for one applicant.
loop_body(name, w0, f) ==
    CASE name = "refresh_db_applicants" ->
             IF f = "expand" THEN fail(w0, "expand") ELSE refresh_db_row(w0, f, NoFaults)
      [] name = "refresh_new_applicants_and_reviews" ->
             refresh_new_applicant(w0, f, NoFaults)
      [] OTHER -> refresh_docusign_applicant(w0, f, f)

\* The stores b after applicant i's pass ended as w.
after_applicant(b, i, w) ==
    [db |-> [b.db EXCEPT ![i] = w.db],
     at |-> [b.at EXCEPT ![i] = w.at],
     prov |-> [b.prov EXCEPT ![i] = w.prov],
     checkr |-> [b.checkr EXCEPT ![i] = w.checkr],
     employee |-> [b.employee EXCEPT ![i] = w.employee],
     out |-> w.out,
     ok |-> w.ok]

\* Applicant i, loaded from the stores b.
applicant_of(b, i) ==
    [self |-> b.db[i], db |-> b.db[i], at |-> b.at[i],
     prov |-> b.prov[i], checkr |-> b.checkr[i],
     employee |-> b.employee[i], tmp |-> tmp,
     out |-> [b.out EXCEPT !.processed = Append(@, i)],
     ok |-> TRUE]

\* The loop from applicant i on; b holds the stores, what was done so far
\* and whether the driver is still running.  A `?` on an Err returns from
\* the driver.
RECURSIVE run_from(_, _, _, _)
run_from(name, b, i, fs) ==
    IF i > MaxApplicants \/ ~b.ok THEN b
    ELSE IF ~selected(name, b.db[i]) THEN run_from(name, b, i + 1, fs)
    ELSE CHOOSE r \in {run_from(name, after_applicant(b, i, w), i + 1, fs) :
                          w \in {loop_body(name, applicant_of(b, i), fs[i])}} : TRUE

\* One run of a driver, each applicant with the step that fails for it.
RunDriver(name, fs) ==
    \E b \in {run_from(name,
                       [db |-> db, at |-> at, prov |-> prov, checkr |-> checkr,
                        employee |-> employee,
                        out |-> [NoOut EXCEPT !.op = name], ok |-> TRUE],
                       1, fs)} :
       /\ \A i \in Applicants :
              b.prov[i].offer.n <= MaxCreates /\ b.prov[i].piia.n <= MaxCreates
       /\ db' = b.db
       /\ at' = b.at
       /\ prov' = b.prov
       /\ checkr' = b.checkr
       /\ employee' = b.employee
       /\ out' = b.out
       /\ UNCHANGED <<self, sheet, today, track, drive, tmp>>

RunRefreshDb ==
    \E fs \in [Applicants -> BatchFaults] : RunDriver("refresh_db_applicants", fs)

RunRefreshNewApplicants ==
    \E fs \in [Applicants -> BatchFaults] :
        RunDriver("refresh_new_applicants_and_reviews", fs)

RunRefreshDocusign ==
    \E fs \in [Applicants -> BatchFaults] :
        RunDriver("refresh_docusign_for_applicants", fs)

\* The applicants are all rows of the sheet, or all applied through the form.
InitBatch ==
    /\ today = 0
    /\ self = NoApplicant
    /\ sheet = [raw_status |-> "giving offer", start_date |-> None, timestamp |-> Submitted]
    /\ \E id \in {"", TrackingSheet} :
          db = [i \in Applicants |->
                   [DefaultApplicant EXCEPT !.status = GivingOffer, !.sheet_id = id]]
    /\ at = db
    /\ prov = [i \in Applicants |-> NoProv]
    /\ checkr = [i \in Applicants |-> NoCheckr]
    /\ employee = [i \in Applicants |-> NoEmployee]
    /\ out = NoOut
    /\ track = FALSE
    /\ drive = NoDrive
    /\ tmp = {}

NextBatch ==
    \/ RunRefreshDb
    \/ RunRefreshNewApplicants
    \/ RunRefreshDocusign

SpecBatch == InitBatch /\ [][NextBatch]_vars

(***************************************************************************)
(* Calls of get_file_contents on one file, with and without a failing step *)
(***************************************************************************)
InitExtract ==
    /\ today = 0
    /\ self = NoApplicant
    /\ sheet = [raw_status |-> "", start_date |-> None, timestamp |-> Submitted]
    /\ db = DefaultApplicant
    /\ at = db
    /\ prov = NoProv
    /\ checkr = NoCheckr
    /\ employee = NoEmployee
    /\ out = NoOut
    /\ track = FALSE
    /\ \E file \in DriveFiles : drive = [resume |-> Some(file), materials |-> None]
    /\ tmp = {}

GetFileContents ==
    \E f \in ExtractFaults :
        LET r == get_file_contents(tmp, unwrap(drive.resume), f) IN
        /\ is_some(drive.resume)
        /\ tmp' = r.tmp
        /\ out' = [NoOut EXCEPT !.op = "get_file_contents",
                                !.err = (r.result.kind # "Ok"),
                                !.failed = r.failed,
                                !.result = r.result,
                                !.tmp_before = tmp]
        /\ UNCHANGED <<self, db, at, sheet, today, prov, checkr, employee, track, drive>>

NextExtract == GetFileContents

SpecExtract == InitExtract /\ [][NextExtract]_vars

(***************************************************************************)
(* parse_question and parse_materials on every materials text              *)
(***************************************************************************)
InitSegment ==
    /\ today = 0
    /\ \E text \in Texts : self = [DefaultApplicant EXCEPT !.materials_contents = text]
    /\ sheet = [raw_status |-> "", start_date |-> None, timestamp |-> Submitted]
    /\ db = DefaultApplicant
    /\ at = db
    /\ prov = NoProv
    /\ checkr = NoCheckr
    /\ employee = NoEmployee
    /\ out = NoOut
    /\ track = FALSE
    /\ drive = NoDrive
    /\ tmp = {}

ParseQuestion ==
    \E c \in 1..Len(Calls) :
        /\ self # NoApplicant
        /\ out' = [NoOut EXCEPT
                      !.op = "parse_question",
                      !.call = c,
                      !.captured = captures(Calls[c].q1, Calls[c].q2,
                                            self.materials_contents),
                      !.result = Ok(parse_question(Calls[c].q1, Calls[c].q2,
                                                   self.materials_contents))]
        /\ UNCHANGED <<self, db, at, sheet, today, prov, checkr, employee, track, drive, tmp>>

ParseMaterials ==
    /\ self # NoApplicant
    /\ self' = parse_materials(self)
    /\ out' = [NoOut EXCEPT !.op = "parse_materials"]
    /\ UNCHANGED <<db, at, sheet, today, prov, checkr, employee, track, drive, tmp>>

NextSegment == ParseQuestion \/ ParseMaterials

SpecSegment == InitSegment /\ [][NextSegment]_vars

(***************************************************************************)
(* Expand: a recent applicant whose links lead to files                    *)
(***************************************************************************)
\* When the application was submitted: today, yesterday, and nineteen days
\* ago.
ExpandSubmitted == {0, 0 - 1, 0 - 19}

\* The resume, and the materials: with an answer to the last question, with
\* no heading of the form at all.
ResumeFile ==
    [mime_type |-> "application/pdf", name |-> <<"c", "v">>,
     text |-> <<" ", "H", "i", "\n">>, members |-> <<>>]

MaterialsFiles ==
    [mime_type : {"application/pdf"}, name : {<<"m">>},
     text : {<<"W", "h", "y", " ", "d", "o", " ", "y", "o", "u", " ", "w", "a", "n", "t", " ", "t", "o", " ", "w", "o", "r", "k", " ", "f", "o", "r", " ", "O", "x", "i", "d", "e", "?", "\n", "H", "e", "l", "l", "o", " ", "w", "o", "r", "l", "d", "\n">>,
             <<"\n", "H", "e", "l", "l", "o", " ", "w", "o", "r", "l", "d", "\n">>},
     members : {<<>>}]

\* The steps of an extraction that fail in the passes of this
\* specification.
ExpandFaults == {"none", "download", "pdftotext", "no_output"}

InitExpand ==
    /\ today = 0
    /\ self = NoApplicant
    /\ sheet \in [raw_status : {"", "declined"}, start_date : {None},
                 timestamp : ExpandSubmitted]
    /\ db \in {parse_from_row_with_columns(sheet, None, DefaultApplicant, today),
               [DefaultApplicant EXCEPT !.status = from_str(sheet.raw_status),
                                        !.submitted_time = sheet.timestamp]}
    /\ at = db
    /\ prov = NoProv
    /\ checkr = NoCheckr
    /\ employee = NoEmployee
    /\ out = NoOut
    /\ track = FALSE
    /\ \E m \in MaterialsFiles : drive = [resume |-> Some(ResumeFile), materials |-> Some(m)]
    /\ tmp = {}

RefreshDbExpand ==
    \E f \in {"none", "expand"}, f1 \in ExpandFaults, f2 \in ExpandFaults :
        /\ db.sheet_id = TrackingSheet
        /\ Commit(refresh_db_row(World(db, "refresh_db_applicants"), f, <<f1, f2>>))

RefreshNewApplicantExpand ==
    \E f \in {"none", "expand"}, f1 \in ExpandFaults, f2 \in ExpandFaults :
        /\ db.sheet_id = ""
        /\ Commit(refresh_new_applicant(
                      World(db, "refresh_new_applicants_and_reviews"), f, <<f1, f2>>))

NextExpand ==
    \/ RefreshDbExpand
    \/ RefreshNewApplicantExpand
    \/ AdvanceDay

SpecExpand == InitExpand /\ [][NextExpand]_vars

(***************************************************************************)
(* Field reconciliation: a tracked row whose record other jobs have filled *)
(***************************************************************************)
\* What the envelope jobs have stored: nothing yet, both envelopes sent, the
\* offer completed.
EnvelopeFields ==
    {[docusign_envelope_id |-> 0, docusign_envelope_status |-> "",
      offer_created |-> None, offer_completed |-> None,
      docusign_piia_envelope_id |-> 0, docusign_piia_envelope_status |-> "",
      piia_envelope_created |-> None, piia_envelope_completed |-> None],
     [docusign_envelope_id |-> 1, docusign_envelope_status |-> "sent",
      offer_created |-> Some(0), offer_completed |-> None,
      docusign_piia_envelope_id |-> 1, docusign_piia_envelope_status |-> "sent",
      piia_envelope_created |-> Some(0), piia_envelope_completed |-> None],
     [docusign_envelope_id |-> 1, docusign_envelope_status |-> "completed",
      offer_created |-> Some(0), offer_completed |-> Some(0),
      docusign_piia_envelope_id |-> 1, docusign_piia_envelope_status |-> "completed",
      piia_envelope_created |-> Some(0), piia_envelope_completed |-> Some(0)]}

\* An applicant at Onboarding who was invited to the background check; the
\* offer's form may have carried a start date, the sheet may carry another.
InitFields ==
    /\ today = 0
    /\ self = NoApplicant
    /\ sheet \in [raw_status : {"onboarding"},
                 start_date : {None, Some(MaxDay)},
                 timestamp : {Submitted}]
    /\ \E e \in EnvelopeFields, code \in {"", "us"}, d \in {None, Some(0)} :
          db = [DefaultApplicant EXCEPT
                   !.status = Onboarding,
                   !.sheet_id = TrackingSheet,
                   !.start_date = d,
                   !.country_code = code,
                   !.criminal_background_check_status = "requested",
                   !.docusign_envelope_id = e.docusign_envelope_id,
                   !.docusign_envelope_status = e.docusign_envelope_status,
                   !.offer_created = e.offer_created,
                   !.offer_completed = e.offer_completed,
                   !.docusign_piia_envelope_id = e.docusign_piia_envelope_id,
                   !.docusign_piia_envelope_status = e.docusign_piia_envelope_status,
                   !.piia_envelope_created = e.piia_envelope_created,
                   !.piia_envelope_completed = e.piia_envelope_completed]
    /\ at = db
    /\ prov = NoProv
    /\ checkr = [candidate |-> TRUE, invitations |-> 1]
    /\ employee = NoEmployee
    /\ out = NoOut
    /\ track = FALSE
    /\ drive = NoDrive
    /\ tmp = {}

RefreshBackgroundChecks ==
    \E reports \in ReportLists :
        /\ checkr.candidate
        /\ db.status = Onboarding
        /\ Commit(refresh_background_checks(
                      World(db, "refresh_background_checks"), reports, "none"))

NextFields ==
    \/ RefreshDb
    \/ RefreshBackgroundChecks

SpecFields == InitFields /\ [][NextFields]_vars

(***************************************************************************)
(* The workspace's own fields: people edit the scorers and the interviews  *)
(* of a tracked row and link reviews to it                                 *)
(***************************************************************************)
NextMirror ==
    \/ RefreshDb
    \/ HumanSetScorers
    \/ HumanSetInterviews
    \/ LinkReview

SpecMirror == Init /\ [][NextMirror]_vars

(***************************************************************************)
(* Envelope events as the provider delivers them: the body of a webhook    *)
(* request carries the status the envelope had when the event was raised   *)
(***************************************************************************)
EnvelopeStatuses == <<"sent", "delivered", "completed">>

\* The statuses an envelope has had so far.
had(status) ==
    {EnvelopeStatuses[i] : i \in {i \in 1..Len(EnvelopeStatuses) :
        \E j \in i..Len(EnvelopeStatuses) : EnvelopeStatuses[j] = status}}

\* listen_docusign_envelope_update_webhooks: the handler is given the body
\* of the request (event.clone()), an event the provider raised now or
\* earlier and delivers, or delivers again, now.
WebhookOfferDelivery ==
    \E status \in had(prov.offer.status) :
        LET w0 == World(db, "webhook_offer") IN
        /\ db.docusign_envelope_id # 0
        /\ Commit(update_applicant_from_docusign_offer_envelope(
                      w0, [get_envelope(w0, "offer") EXCEPT !.status = status], "none"))

WebhookPiiaDelivery ==
    \E status \in had(prov.piia.status) :
        LET w0 == World(db, "webhook_piia") IN
        /\ db.docusign_piia_envelope_id # 0
        /\ Commit(update_applicant_from_docusign_piia_envelope(
                      w0, [get_envelope(w0, "piia") EXCEPT !.status = status], "none"))

NextEvents ==
    \/ RefreshDb
    \/ RefreshDocusign
    \/ WebhookOfferDelivery
    \/ WebhookPiiaDelivery
    \/ ProviderAdvance

SpecEvents == Init /\ [][NextEvents]_vars

(***************************************************************************)
(* Jobs in flight: the pass of refresh_docusign_for_applicants between its *)
(* two steps for an applicant, and the webhook handler between loading the *)
(* applicant and handling the event.  Here self holds the copy each job    *)
(* has in memory.                                                          *)
(***************************************************************************)
NoJobs == [pass |-> NoApplicant, webhook |-> NoApplicant]

\* The stores as an operation's step leaves them.
Written(w) ==
    /\ db' = w.db
    /\ at' = w.at
    /\ prov' = w.prov
    /\ checkr' = w.checkr
    /\ employee' = w.employee
    /\ out' = w.out
    /\ track' = (track \/ settled(w))
    /\ tmp' = w.tmp
    /\ UNCHANGED <<sheet, today, drive>>

\* The envelopes and invitations created stay within the bound.
Bounded(w) ==
    /\ w.prov.offer.n <= MaxCreates
    /\ w.prov.piia.n <= MaxCreates
    /\ w.checkr.invitations <= MaxCreates

\* refresh_docusign_for_applicants: the applicant as the database holds it,
\* and do_docusign_offer on it.
PassOffer ==
    \E w \in {do_docusign_offer(
                  World(db, "refresh_docusign_for_applicants"),
                  get_docusign_template_id(prov, DOCUSIGN_OFFER_TEMPLATE), "none")} :
        /\ self.pass = NoApplicant
        /\ Bounded(w)
        /\ Written(w)
        /\ self' = [self EXCEPT !.pass = w.self]

\* do_docusign_piia on the same applicant in memory.
PassPiia ==
    /\ self.pass # NoApplicant
    /\ \E w \in {do_docusign_piia(
                     World(self.pass, "refresh_docusign_for_applicants"),
                     get_docusign_template_id(prov, DOCUSIGN_PIIA_TEMPLATE), "none")} :
           /\ Bounded(w)
           /\ Written(w)
           /\ self' = [self EXCEPT !.pass = NoApplicant]

\* listen_docusign_envelope_update_webhooks: the applicant whose offer
\* envelope the event names is read from the database.
WebhookOfferLoad ==
    /\ self.webhook = NoApplicant
    /\ db.docusign_envelope_id # 0
    /\ self' = [self EXCEPT !.webhook = db]
    /\ out' = Env("webhook_offer_load")
    /\ UNCHANGED <<db, at, sheet, today, prov, checkr, employee, track, drive, tmp>>

\* The handler runs on the applicant read.
WebhookOfferHandle ==
    /\ self.webhook # NoApplicant
    /\ \E w \in {update_applicant_from_docusign_offer_envelope(
                     w0, get_envelope(w0, "offer"), "none") :
                     w0 \in {World(self.webhook, "webhook_offer")}} :
           /\ Bounded(w)
           /\ Written(w)
           /\ self' = [self EXCEPT !.webhook = NoApplicant]

\* A person moves the applicant to Giving offer in the workspace.
HumanGivesOffer ==
    /\ at.status # GivingOffer
    /\ at' = [at EXCEPT !.status = GivingOffer]
    /\ out' = Env("env")
    /\ UNCHANGED <<self, db, sheet, today, prov, checkr, employee, track, drive, tmp>>

InitRace ==
    /\ today = 0
    /\ self = NoJobs
    /\ sheet \in [raw_status : {"next steps", "giving offer"},
                 start_date : {None},
                 timestamp : {Submitted}]
    /\ db = parse_from_row_with_columns(sheet, None, DefaultApplicant, today)
    /\ at = db
    /\ prov = NoProv
    /\ checkr = NoCheckr
    /\ employee = NoEmployee
    /\ out = NoOut
    /\ track = FALSE
    /\ drive = NoDrive
    /\ tmp = {}

NextRace ==
    \/ PassOffer
    \/ PassPiia
    \/ WebhookOfferLoad
    \/ WebhookOfferHandle
    \/ HumanGivesOffer
    \/ ProviderAdvance

SpecRace == InitRace /\ [][NextRace]_vars

(***************************************************************************)
(* Passes that keep running: a step of a pass may fail, and a pass in      *)
(* which every collaborator succeeds always comes again                    *)
(***************************************************************************)
\* The steps that fail in a pass: the provider's create_envelope, the
\* background-check request, the chat post.
RetryFaults == {"none", "create_envelope", "checkr", "notify"}

RefreshDocusignRetry ==
    \E f1 \in RetryFaults, f2 \in RetryFaults :
        /\ <<f1, f2>> # <<"none", "none">>
        /\ DocusignPass(f1, f2)

NextRetry ==
    \/ RefreshDocusign
    \/ RefreshDocusignRetry
    \/ WebhookOffer
    \/ WebhookPiia
    \/ ProviderAdvance

\* The scheduler runs refresh_docusign_for_applicants again and again, and
\* the collaborators succeed in the end: a pass without a failing step is
\* taken whenever it would change anything.  The signers go on signing.
SpecRetry ==
    /\ Init
    /\ [][NextRetry]_vars
    /\ WF_vars(RefreshDocusign)
    /\ WF_vars(ProviderAdvance)

(***************************************************************************)
(* Filing the documents of a completed envelope in the shared drive        *)
(* "Offer Letters"                                                         *)
(***************************************************************************)
\* A summary filed under the offer letter's name.
offer_filename_summary_as_offer(name, document_name) ==
    IF \/ str_contains(document_name, <<"O", "f", "f", "e", "r", " ", "L", "e", "t", "t", "e", "r">>)
       \/ str_contains(document_name, <<"S", "u", "m", "m", "a", "r", "y">>)
    THEN name \o <<" ", "-", " ", "O", "f", "f", "e", "r", ".", "p", "d", "f">>
    ELSE IF \/ str_contains(document_name, <<"E", "m", "p", "l", "o", "y", "e", "e", " ", "M", "e", "d", "i", "a", "t", "i", "o", "n">>)
            \/ str_contains(document_name, <<"E", "m", "p", "l", "o", "y", "e", "e", "_", "M", "e", "d", "i", "a", "t", "i", "o", "n">>)
    THEN name \o <<" ", "-", " ", "M", "e", "d", "i", "a", "t", "i", "o", "n", " ", "A", "g", "r", "e", "e", "m", "e", "n", "t", ".", "p", "d", "f">>
    ELSE IF \/ str_contains(document_name, <<"E", "m", "p", "l", "o", "y", "e", "e", " ", "P", "r", "o", "p", "r", "i", "e", "t", "a", "r", "y">>)
            \/ str_contains(document_name, <<"E", "m", "p", "l", "o", "y", "e", "e", "_", "P", "r", "o", "p", "r", "i", "e", "t", "a", "r", "y">>)
    THEN name \o <<" ", "-", " ", "P", "I", "I", "A", ".", "p", "d", "f">>
    ELSE name \o <<" ", "-", " ">> \o document_name \o <<".", "p", "d", "f">>

\* The name a document of the offer envelope is filed under.
offer_filename(name, document_name) ==
    IF str_contains(document_name, <<"O", "f", "f", "e", "r", " ", "L", "e", "t", "t", "e", "r">>)
    THEN name \o <<" ", "-", " ", "O", "f", "f", "e", "r", ".", "p", "d", "f">>
    ELSE IF str_contains(document_name, <<"S", "u", "m", "m", "a", "r", "y">>)
    THEN name \o <<" ", "-", " ", "O", "f", "f", "e", "r", " ", "-", " ", "D", "o", "c", "u", "S", "i", "g", "n", " ", "S", "u", "m", "m", "a", "r", "y", ".", "p", "d", "f">>
    ELSE IF \/ str_contains(document_name, <<"E", "m", "p", "l", "o", "y", "e", "e", " ", "M", "e", "d", "i", "a", "t", "i", "o", "n">>)
            \/ str_contains(document_name, <<"E", "m", "p", "l", "o", "y", "e", "e", "_", "M", "e", "d", "i", "a", "t", "i", "o", "n">>)
    THEN name \o <<" ", "-", " ", "M", "e", "d", "i", "a", "t", "i", "o", "n", " ", "A", "g", "r", "e", "e", "m", "e", "n", "t", ".", "p", "d", "f">>
    ELSE IF \/ str_contains(document_name, <<"E", "m", "p", "l", "o", "y", "e", "e", " ", "P", "r", "o", "p", "r", "i", "e", "t", "a", "r", "y">>)
            \/ str_contains(document_name, <<"E", "m", "p", "l", "o", "y", "e", "e", "_", "P", "r", "o", "p", "r", "i", "e", "t", "a", "r", "y">>)
    THEN name \o <<" ", "-", " ", "P", "I", "I", "A", ".", "p", "d", "f">>
    ELSE name \o <<" ", "-", " ">> \o document_name \o <<".", "p", "d", "f">>

\* The name a document of the agreements envelope is filed under.
piia_filename(name, document_name) ==
    IF \/ str_contains(document_name, <<"E", "m", "p", "l", "o", "y", "e", "e", " ", "M", "e", "d", "i", "a", "t", "i", "o", "n">>)
       \/ str_contains(document_name, <<"E", "m", "p", "l", "o", "y", "e", "e", "_", "M", "e", "d", "i", "a", "t", "i", "o", "n">>)
    THEN name \o <<" ", "-", " ", "M", "e", "d", "i", "a", "t", "i", "o", "n", " ", "A", "g", "r", "e", "e", "m", "e", "n", "t", ".", "p", "d", "f">>
    ELSE IF \/ str_contains(document_name, <<"E", "m", "p", "l", "o", "y", "e", "e", " ", "P", "r", "o", "p", "r", "i", "e", "t", "a", "r", "y">>)
            \/ str_contains(document_name, <<"E", "m", "p", "l", "o", "y", "e", "e", "_", "P", "r", "o", "p", "r", "i", "e", "t", "a", "r", "y">>)
    THEN name \o <<" ", "-", " ", "P", "I", "I", "A", ".", "p", "d", "f">>
    ELSE IF str_contains(document_name, <<"S", "u", "m", "m", "a", "r", "y">>)
    THEN name \o <<" ", "-", " ", "E", "m", "p", "l", "o", "y", "e", "e", " ", "A", "g", "r", "e", "e", "m", "e", "n", "t", "s", " ", "-", " ", "D", "o", "c", "u", "S", "i", "g", "n", " ", "S", "u", "m", "m", "a", "r", "y", ".", "p", "d", "f">>
    ELSE IF str_contains(document_name, <<"O", "f", "f", "e", "r", " ", "L", "e", "t", "t", "e", "r">>)
    THEN name \o <<" ", "-", " ", "O", "f", "f", "e", "r", ".", "p", "d", "f">>
    ELSE name \o <<" ", "-", " ">> \o document_name \o <<".", "p", "d", "f">>

\* drive_client.files().create_folder(drive, "", name): the id of the folder
\* of that name, which is created when the drive has none.  A folder's id is
\* its position in the drive's list.
create_folder(d, name) ==
    IF contains(d.folders, name)
    THEN [drive |-> d, id |-> position(d.folders, name)]
    ELSE [drive |-> [d EXCEPT !.folders = Append(@, name)],
          id |-> Len(d.folders) + 1]

\* drive_client.files().create_or_update(drive, parent, name, mime, bytes):
\* the file of that name in the folder gets the contents, and is created
\* when the folder has none.
create_or_update(d, parent, name, contents) ==
    IF \E i \in 1..Len(d.files) : d.files[i].parent = parent /\ d.files[i].name = name
    THEN [d EXCEPT !.files =
             [i \in 1..Len(d.files) |->
                 IF d.files[i].parent = parent /\ d.files[i].name = name
                 THEN [d.files[i] EXCEPT !.contents = contents]
                 ELSE d.files[i]]]
    ELSE [d EXCEPT !.files =
             Append(@, [parent |-> parent, name |-> name, contents |-> contents])]

\* ds.get_document(envelope_id, document.id)
get_document(kind, document) == [envelope |-> kind, document |-> document.id]

\* for document in &envelope.documents { ... }
RECURSIVE file_documents(_, _, _, _)
file_documents(d, name, kind, documents) ==
    IF documents = <<>> THEN d
    ELSE LET document == Head(documents)
             name_folder == create_folder(d, name)
             filename == IF kind = "offer"
                         THEN offer_filename(name, document.name)
                         ELSE piia_filename(name, document.name)
         IN file_documents(
                create_or_update(name_folder.drive, name_folder.id, filename,
                                 get_document(kind, document)),
                name, kind, Tail(documents))

\* The applicants' names.
ApplicantNames == {<<"A", "d", "a">>, <<"B", "o">>}

\* The documents of the envelopes made from the two templates; the last one
\* is the summary the provider adds.
OfferDocuments ==
    {<<[id |-> 1, name |-> <<"E", "m", "p", "l", "o", "y", "e", "e", " ", "O", "f", "f", "e", "r", " ", "L", "e", "t", "t", "e", "r">>],
       [id |-> 2, name |-> <<"S", "u", "m", "m", "a", "r", "y">>]>>,
     <<[id |-> 1, name |-> <<"E", "m", "p", "l", "o", "y", "e", "e", " ", "O", "f", "f", "e", "r", " ", "L", "e", "t", "t", "e", "r">>],
       [id |-> 2, name |-> <<"R", "e", "l", "o", "c", "a", "t", "i", "o", "n">>],
       [id |-> 3, name |-> <<"S", "u", "m", "m", "a", "r", "y">>]>>}

PiiaDocuments ==
    {<<[id |-> 1, name |-> <<"E", "m", "p", "l", "o", "y", "e", "e", " ", "M", "e", "d", "i", "a", "t", "i", "o", "n", " ", "A", "g", "r", "e", "e", "m", "e", "n", "t">>],
       [id |-> 2, name |-> <<"E", "m", "p", "l", "o", "y", "e", "e", "_", "P", "r", "o", "p", "r", "i", "e", "t", "a", "r", "y", "_", "I", "n", "f", "o", "r", "m", "a", "t", "i", "o", "n">>],
       [id |-> 3, name |-> <<"S", "u", "m", "m", "a", "r", "y">>]>>,
     <<[id |-> 1, name |-> <<"E", "m", "p", "l", "o", "y", "e", "e", "_", "M", "e", "d", "i", "a", "t", "i", "o", "n", "_", "A", "g", "r", "e", "e", "m", "e", "n", "t">>],
       [id |-> 2, name |-> <<"E", "m", "p", "l", "o", "y", "e", "e", " ", "P", "r", "o", "p", "r", "i", "e", "t", "a", "r", "y", " ", "I", "n", "f", "o", "r", "m", "a", "t", "i", "o", "n">>],
       [id |-> 3, name |-> <<"S", "u", "m", "m", "a", "r", "y">>]>>}

\* The applicant with the name field, which no step changes.
named(a, name) ==
    [field \in DOMAIN a \cup {"name"} |-> IF field = "name" THEN name ELSE a[field]]

\* What an observation leaves in the stores and in the drive.
Filed(w, d) ==
    /\ db' = w.db
    /\ at' = w.at
    /\ prov' = w.prov
    /\ checkr' = w.checkr
    /\ employee' = w.employee
    /\ out' = w.out
    /\ track' = (track \/ settled(w))
    /\ tmp' = w.tmp
    /\ drive' = d
    /\ UNCHANGED <<self, sheet, today>>

\* listen_docusign_envelope_update_webhooks for the offer envelope: the
\* documents are filed when the envelope is completed and nothing before the
\* filing has failed.
WebhookOfferFiles ==
    /\ db.docusign_envelope_id # 0
    /\ \E f \in {"none", "checkr"} :
       \E envelope \in {get_envelope(World(db, "webhook_offer"), "offer")} :
       \E w \in {update_applicant_from_docusign_offer_envelope(
                     World(db, "webhook_offer"), envelope, f)} :
          /\ Bounded(w)
          /\ Filed(w, IF envelope.status = "completed" /\ w.ok
                      THEN file_documents(drive, w.self.name, "offer",
                                          prov.documents.offer)
                      ELSE drive)

\* The same for the agreements envelope, whose documents are filed after the
\* update and the notification.
WebhookPiiaFiles ==
    /\ db.docusign_piia_envelope_id # 0
    /\ \E envelope \in {get_envelope(World(db, "webhook_piia"), "piia")} :
       \E w \in {update_applicant_from_docusign_piia_envelope(
                     World(db, "webhook_piia"), envelope, "none")} :
          Filed(w, IF envelope.status = "completed" /\ w.ok
                   THEN file_documents(drive, w.self.name, "piia",
                                       prov.documents.piia)
                   ELSE drive)

\* An applicant at Giving offer whose two envelopes a pass has created, and
\* a drive in which nothing is filed yet.
InitFiling ==
    /\ today = 0
    /\ self = NoApplicant
    /\ sheet = [raw_status |-> "giving offer", start_date |-> None,
                timestamp |-> Submitted]
    /\ \E name \in ApplicantNames :
          db = named([parse_from_row_with_columns(sheet, None, DefaultApplicant, today)
                         EXCEPT !.docusign_envelope_id = 1,
                                !.docusign_envelope_status = "sent",
                                !.docusign_piia_envelope_id = 1,
                                !.docusign_piia_envelope_status = "sent"],
                     name)
    /\ at = db
    /\ \E offer \in OfferDocuments, piia \in PiiaDocuments :
          prov = [offer |-> [n |-> 1, status |-> "sent", start_date |-> None],
                  piia |-> [n |-> 1, status |-> "sent", start_date |-> None],
                  templates |-> NoProv.templates,
                  documents |-> [offer |-> offer, piia |-> piia]]
    /\ checkr = NoCheckr
    /\ employee = NoEmployee
    /\ out = NoOut
    /\ track = FALSE
    /\ drive = [folders |-> <<>>, files |-> <<>>]
    /\ tmp = {}

NextFiling ==
    \/ WebhookOfferFiles
    \/ WebhookPiiaFiles
    \/ ProviderAdvance

SpecFiling == InitFiling /\ [][NextFiling]_vars

(***************************************************************************)
(* The applicant as JSON                                                   *)
(***************************************************************************)
\* The fields of NewApplicant with their serde attributes, in the order of
\* the struct.
NewApplicantFields ==
    <<[name |-> "name", type |-> "String", default |-> FALSE, skip_serializing_if |-> "", with |-> ""],
      [name |-> "role", type |-> "String", default |-> FALSE, skip_serializing_if |-> "", with |-> ""],
      [name |-> "sheet_id", type |-> "String", default |-> TRUE, skip_serializing_if |-> "String::is_empty", with |-> ""],
      [name |-> "status", type |-> "String", default |-> FALSE, skip_serializing_if |-> "", with |-> ""],
      [name |-> "raw_status", type |-> "String", default |-> TRUE, skip_serializing_if |-> "String::is_empty", with |-> ""],
      [name |-> "submitted_time", type |-> "DateTime<Utc>", default |-> FALSE, skip_serializing_if |-> "", with |-> ""],
      [name |-> "email", type |-> "String", default |-> FALSE, skip_serializing_if |-> "", with |-> ""],
      [name |-> "phone", type |-> "String", default |-> TRUE, skip_serializing_if |-> "String::is_empty", with |-> ""],
      [name |-> "country_code", type |-> "String", default |-> TRUE, skip_serializing_if |-> "String::is_empty", with |-> ""],
      [name |-> "location", type |-> "String", default |-> TRUE, skip_serializing_if |-> "String::is_empty", with |-> ""],
      [name |-> "latitude", type |-> "f32", default |-> TRUE, skip_serializing_if |-> "", with |-> ""],
      [name |-> "longitude", type |-> "f32", default |-> TRUE, skip_serializing_if |-> "", with |-> ""],
      [name |-> "github", type |-> "String", default |-> TRUE, skip_serializing_if |-> "String::is_empty", with |-> ""],
      [name |-> "gitlab", type |-> "String", default |-> TRUE, skip_serializing_if |-> "String::is_empty", with |-> ""],
      [name |-> "linkedin", type |-> "String", default |-> TRUE, skip_serializing_if |-> "String::is_empty", with |-> ""],
      [name |-> "portfolio", type |-> "String", default |-> TRUE, skip_serializing_if |-> "String::is_empty", with |-> ""],
      [name |-> "portfolio_pdf", type |-> "String", default |-> TRUE, skip_serializing_if |-> "String::is_empty", with |-> ""],
      [name |-> "website", type |-> "String", default |-> TRUE, skip_serializing_if |-> "String::is_empty", with |-> ""],
      [name |-> "resume", type |-> "String", default |-> TRUE, skip_serializing_if |-> "String::is_empty", with |-> ""],
      [name |-> "materials", type |-> "String", default |-> TRUE, skip_serializing_if |-> "String::is_empty", with |-> ""],
      [name |-> "sent_email_received", type |-> "bool", default |-> TRUE, skip_serializing_if |-> "", with |-> ""],
      [name |-> "sent_email_follow_up", type |-> "bool", default |-> TRUE, skip_serializing_if |-> "", with |-> ""],
      [name |-> "rejection_sent_date_time", type |-> "Option<DateTime<Utc>>", default |-> TRUE, skip_serializing_if |-> "Option::is_none", with |-> ""],
      [name |-> "value_reflected", type |-> "String", default |-> TRUE, skip_serializing_if |-> "String::is_empty", with |-> ""],
      [name |-> "value_violated", type |-> "String", default |-> TRUE, skip_serializing_if |-> "String::is_empty", with |-> ""],
      [name |-> "values_in_tension", type |-> "Vec<String>", default |-> TRUE, skip_serializing_if |-> "Vec::is_empty", with |-> ""],
      [name |-> "resume_contents", type |-> "String", default |-> TRUE, skip_serializing_if |-> "String::is_empty", with |-> ""],
      [name |-> "materials_contents", type |-> "String", default |-> TRUE, skip_serializing_if |-> "String::is_empty", with |-> ""],
      [name |-> "work_samples", type |-> "String", default |-> TRUE, skip_serializing_if |-> "String::is_empty", with |-> ""],
      [name |-> "writing_samples", type |-> "String", default |-> TRUE, skip_serializing_if |-> "String::is_empty", with |-> ""],
      [name |-> "analysis_samples", type |-> "String", default |-> TRUE, skip_serializing_if |-> "String::is_empty", with |-> ""],
      [name |-> "presentation_samples", type |-> "String", default |-> TRUE, skip_serializing_if |-> "String::is_empty", with |-> ""],
      [name |-> "exploratory_samples", type |-> "String", default |-> TRUE, skip_serializing_if |-> "String::is_empty", with |-> ""],
      [name |-> "question_technically_challenging", type |-> "String", default |-> TRUE, skip_serializing_if |-> "String::is_empty", with |-> ""],
      [name |-> "question_proud_of", type |-> "String", default |-> TRUE, skip_serializing_if |-> "String::is_empty", with |-> ""],
      [name |-> "question_happiest", type |-> "String", default |-> TRUE, skip_serializing_if |-> "String::is_empty", with |-> ""],
      [name |-> "question_unhappiest", type |-> "String", default |-> TRUE, skip_serializing_if |-> "String::is_empty", with |-> ""],
      [name |-> "question_value_reflected", type |-> "String", default |-> TRUE, skip_serializing_if |-> "String::is_empty", with |-> ""],
      [name |-> "question_value_violated", type |-> "String", default |-> TRUE, skip_serializing_if |-> "String::is_empty", with |-> ""],
      [name |-> "question_values_in_tension", type |-> "String", default |-> TRUE, skip_serializing_if |-> "String::is_empty", with |-> ""],
      [name |-> "question_why_oxide", type |-> "String", default |-> TRUE, skip_serializing_if |-> "String::is_empty", with |-> ""],
      [name |-> "interview_packet", type |-> "String", default |-> TRUE, skip_serializing_if |-> "String::is_empty", with |-> ""],
      [name |-> "interviews", type |-> "Vec<String>", default |-> TRUE, skip_serializing_if |-> "Vec::is_empty", with |-> ""],
      [name |-> "interviews_started", type |-> "Option<DateTime<Utc>>", default |-> TRUE, skip_serializing_if |-> "Option::is_none", with |-> ""],
      [name |-> "interviews_completed", type |-> "Option<DateTime<Utc>>", default |-> TRUE, skip_serializing_if |-> "Option::is_none", with |-> ""],
      [name |-> "scorers", type |-> "Vec<String>", default |-> TRUE, skip_serializing_if |-> "Vec::is_empty", with |-> "user_format_as_array_of_strings"],
      [name |-> "scorers_completed", type |-> "Vec<String>", default |-> TRUE, skip_serializing_if |-> "Vec::is_empty", with |-> "user_format_as_array_of_strings"],
      [name |-> "scoring_form_id", type |-> "String", default |-> TRUE, skip_serializing_if |-> "String::is_empty", with |-> ""],
      [name |-> "scoring_form_url", type |-> "String", default |-> TRUE, skip_serializing_if |-> "String::is_empty", with |-> ""],
      [name |-> "scoring_form_responses_url", type |-> "String", default |-> TRUE, skip_serializing_if |-> "String::is_empty", with |-> ""],
      [name |-> "scoring_evaluations_count", type |-> "i32", default |-> TRUE, skip_serializing_if |-> "", with |-> ""],
      [name |-> "scoring_enthusiastic_yes_count", type |-> "i32", default |-> TRUE, skip_serializing_if |-> "", with |-> ""],
      [name |-> "scoring_yes_count", type |-> "i32", default |-> TRUE, skip_serializing_if |-> "", with |-> ""],
      [name |-> "scoring_pass_count", type |-> "i32", default |-> TRUE, skip_serializing_if |-> "", with |-> ""],
      [name |-> "scoring_no_count", type |-> "i32", default |-> TRUE, skip_serializing_if |-> "", with |-> ""],
      [name |-> "scoring_not_applicable_count", type |-> "i32", default |-> TRUE, skip_serializing_if |-> "", with |-> ""],
      [name |-> "scoring_insufficient_experience_count", type |-> "i32", default |-> TRUE, skip_serializing_if |-> "", with |-> ""],
      [name |-> "scoring_inapplicable_experience_count", type |-> "i32", default |-> TRUE, skip_serializing_if |-> "", with |-> ""],
      [name |-> "scoring_job_function_yet_needed_count", type |-> "i32", default |-> TRUE, skip_serializing_if |-> "", with |-> ""],
      [name |-> "scoring_underwhelming_materials_count", type |-> "i32", default |-> TRUE, skip_serializing_if |-> "", with |-> ""],
      [name |-> "criminal_background_check_status", type |-> "String", default |-> TRUE, skip_serializing_if |-> "String::is_empty", with |-> ""],
      [name |-> "motor_vehicle_background_check_status", type |-> "String", default |-> TRUE, skip_serializing_if |-> "String::is_empty", with |-> ""],
      [name |-> "start_date", type |-> "Option<NaiveDate>", default |-> TRUE, skip_serializing_if |-> "Option::is_none", with |-> ""],
      [name |-> "interested_in", type |-> "Vec<String>", default |-> TRUE, skip_serializing_if |-> "Vec::is_empty", with |-> ""],
      [name |-> "geocode_cache", type |-> "String", default |-> TRUE, skip_serializing_if |-> "String::is_empty", with |-> ""],
      [name |-> "docusign_envelope_id", type |-> "String", default |-> TRUE, skip_serializing_if |-> "String::is_empty", with |-> ""],
      [name |-> "docusign_envelope_status", type |-> "String", default |-> TRUE, skip_serializing_if |-> "String::is_empty", with |-> ""],
      [name |-> "offer_created", type |-> "Option<DateTime<Utc>>", default |-> TRUE, skip_serializing_if |-> "Option::is_none", with |-> ""],
      [name |-> "offer_completed", type |-> "Option<DateTime<Utc>>", default |-> TRUE, skip_serializing_if |-> "Option::is_none", with |-> ""],
      [name |-> "docusign_piia_envelope_id", type |-> "String", default |-> TRUE, skip_serializing_if |-> "String::is_empty", with |-> ""],
      [name |-> "docusign_piia_envelope_status", type |-> "String", default |-> TRUE, skip_serializing_if |-> "String::is_empty", with |-> ""],
      [name |-> "piia_envelope_created", type |-> "Option<DateTime<Utc>>", default |-> TRUE, skip_serializing_if |-> "Option::is_none", with |-> ""],
      [name |-> "piia_envelope_completed", type |-> "Option<DateTime<Utc>>", default |-> TRUE, skip_serializing_if |-> "Option::is_none", with |-> ""],
      [name |-> "link_to_reviews", type |-> "Vec<String>", default |-> TRUE, skip_serializing_if |-> "Vec::is_empty", with |-> ""],
      [name |-> "cio_company_id", type |-> "i32", default |-> TRUE, skip_serializing_if |-> "", with |-> ""]>>

\* A summary of a status field that is left out when empty and has no
\* default.
serde_attributes_status_skipped(field) ==
    IF field.name = "status"
    THEN [default |-> FALSE, skip_serializing_if |-> "String::is_empty", with |-> ""]
    ELSE [default |-> field.default, skip_serializing_if |-> field.skip_serializing_if,
          with |-> field.with]

\* #[serde(default, skip_serializing_if = "...", serialize_with = "...",
\* deserialize_with = "...")] of a field.
serde_attributes(field) ==
    [default |-> field.default, skip_serializing_if |-> field.skip_serializing_if,
     with |-> field.with]

\* The values of JSON.
json_null == [t |-> "null"]
json_bool(b) == [t |-> "bool", v |-> b]
json_number(n) == [t |-> "number", v |-> n]
json_string(s) == [t |-> "string", v |-> s]
json_array(list) == [t |-> "array", v |-> list]
json_object(members) == [t |-> "object", v |-> members]

Numbers == {"i32", "f32"}
Times == {"DateTime<Utc>", "NaiveDate"}
Options == {"Option<DateTime<Utc>>", "Option<NaiveDate>"}

\* String::is_empty, Vec::is_empty, Option::is_none
skipped(predicate, x) ==
    CASE predicate = "String::is_empty" -> x = <<>>
      [] predicate = "Vec::is_empty" -> Len(x) = 0
      [] predicate = "Option::is_none" -> ~is_some(x)
      [] OTHER -> FALSE

\* Default::default() of a field's type.
default_value(type) ==
    CASE type \in Numbers -> 0
      [] type = "bool" -> FALSE
      [] type \in Options -> None
      [] OTHER -> <<>>

\* airtable_api::user_format_as_array_of_strings::serialize: every address
\* becomes a user object, whose empty id and name are left out.
user_format_serialize(array) ==
    json_array([i \in 1..Len(array) |-> json_object([email |-> json_string(array[i])])])

\* airtable_api::user_format_as_array_of_strings::deserialize: the addresses
\* of the user objects.
user_format_deserialize(j) ==
    IF j.t = "array"
       /\ \A i \in 1..Len(j.v) :
             /\ j.v[i].t = "object"
             /\ "email" \in DOMAIN j.v[i].v
             /\ j.v[i].v.email.t = "string"
    THEN Ok([i \in 1..Len(j.v) |-> j.v[i].v.email.v])
    ELSE Err("invalid type")

\* Serialize for a value of a field's type.
serialize_value(type, x) ==
    CASE type \in Numbers -> json_number(x)
      [] type = "bool" -> json_bool(x)
      [] type \in Options -> IF is_some(x) THEN json_string(unwrap(x)) ELSE json_null
      [] type = "Vec<String>" -> json_array([i \in 1..Len(x) |-> json_string(x[i])])
      [] OTHER -> json_string(x)

\* Deserialize for a value of a field's type.
deserialize_value(type, j) ==
    CASE type \in Numbers -> IF j.t = "number" THEN Ok(j.v) ELSE Err("invalid type")
      [] type = "bool" -> IF j.t = "bool" THEN Ok(j.v) ELSE Err("invalid type")
      [] type \in Options ->
            IF j.t = "null" THEN Ok(None)
            ELSE IF j.t = "string" THEN Ok(Some(j.v))
            ELSE Err("invalid type")
      [] type = "Vec<String>" ->
            IF j.t = "array" /\ \A i \in 1..Len(j.v) : j.v[i].t = "string"
            THEN Ok([i \in 1..Len(j.v) |-> j.v[i].v])
            ELSE Err("invalid type")
      [] OTHER -> IF j.t = "string" THEN Ok(j.v) ELSE Err("invalid type")

field_named(name) ==
    NewApplicantFields[CHOOSE i \in 1..Len(NewApplicantFields) :
                           NewApplicantFields[i].name = name]

FieldNames == {NewApplicantFields[i].name : i \in 1..Len(NewApplicantFields)}

\* json!(applicant): the members of the object are the fields that are not
\* left out.
to_value(applicant) ==
    LET kept == {name \in FieldNames :
                    ~skipped(serde_attributes(field_named(name)).skip_serializing_if,
                             applicant[name])}
    IN json_object(
           [name \in kept |->
               IF serde_attributes(field_named(name)).with = "user_format_as_array_of_strings"
               THEN user_format_serialize(applicant[name])
               ELSE serialize_value(field_named(name).type, applicant[name])])

\* serde_json::from_str: a member that is absent takes the default of a
\* field that has one and is an error otherwise.
from_value_field(j, name) ==
    IF name \in DOMAIN j.v
    THEN IF serde_attributes(field_named(name)).with = "user_format_as_array_of_strings"
         THEN user_format_deserialize(j.v[name])
         ELSE deserialize_value(field_named(name).type, j.v[name])
    ELSE IF serde_attributes(field_named(name)).default
    THEN Ok(default_value(field_named(name).type))
    ELSE Err("missing field")

serde_json_from_str(j) ==
    IF j.t # "object" THEN Err("invalid type")
    ELSE IF \E name \in FieldNames : from_value_field(j, name).kind # "Ok"
    THEN Err(from_value_field(j, CHOOSE name \in FieldNames :
                                     from_value_field(j, name).kind # "Ok").value)
    ELSE Ok([name \in FieldNames |-> from_value_field(j, name).value])

\* The values the fields of each type take in the stored applicants.
JsonStrings == {<<>>, <<"x">>}
JsonLists == {<<>>, <<<<"a">>>>, <<<<"a">>, <<"b">>>>}

\* The applicant whose fields hold these values, by type.
applicant_with(required, string, number, option, list, users) ==
    [name \in FieldNames |->
        LET field == field_named(name) IN
        CASE field.with # "" -> users
          [] field.type \in Numbers -> number
          [] field.type = "bool" -> number = 1
          [] field.type \in Times -> <<number>>
          [] field.type \in Options -> option
          [] field.type = "Vec<String>" -> list
          [] ~field.default -> required
          [] OTHER -> string]

StoredApplicants ==
    {applicant_with(required, string, number, option, list, users) :
        required \in JsonStrings, string \in JsonStrings, number \in 0..1,
        option \in {None, Some(<<1>>)}, list \in JsonLists, users \in JsonLists}

NoJson == json_null

\* let scorers = json!(applicant).to_string();
Serialize ==
    /\ out' = to_value(db)
    /\ UNCHANGED <<self, db, at, sheet, today, prov, checkr, employee, track, drive, tmp>>

\* let a: Applicant = serde_json::from_str(&scorers)
Deserialize ==
    /\ out # NoJson
    /\ self' = serde_json_from_str(out)
    /\ UNCHANGED <<db, at, sheet, today, prov, checkr, employee, out, track, drive, tmp>>

InitJson ==
    /\ today = 0
    /\ self = NoApplicant
    /\ sheet = [raw_status |-> "", start_date |-> None, timestamp |-> Submitted]
    /\ db \in StoredApplicants
    /\ at = db
    /\ prov = NoProv
    /\ checkr = NoCheckr
    /\ employee = NoEmployee
    /\ out = NoJson
    /\ track = FALSE
    /\ drive = NoDrive
    /\ tmp = {}

NextJson ==
    \/ Serialize
    \/ Deserialize

SpecJson == InitJson /\ [][NextJson]_vars

(***************************************************************************)
(* Names used by the properties                                            *)
(***************************************************************************)
Observations == {"refresh_docusign_for_applicants", "webhook_offer", "webhook_piia"}
Derivations == {"update_status", "derive_status"}
StartReached(a, now) == is_some(a.start_date) /\ unwrap(a.start_date) <= now

(***************************************************************************)
(* Properties                                                              *)
(***************************************************************************)

C2_CreateAtMostOnce == prov.offer.n <= 1 /\ prov.piia.n <= 1

\* C3: in a pass whose steps all succeed, do_docusign_offer and
\* do_docusign_piia call create_envelope exactly when the status is Giving
\* offer and the stored id of that kind is empty; the call then stores the id
\* and the status 'sent' and posts exactly one envelope-status notification.
C3_CreateGuarded ==
    [][out'.op = "refresh_docusign_for_applicants" =>
         /\ out'.create_offer <= 1
         /\ out'.create_offer = 1 <=>
               (at.status = GivingOffer /\ db.docusign_envelope_id = 0)
         /\ out'.create_offer = 1 =>
               /\ db'.docusign_envelope_id = prov'.offer.n
               /\ db'.docusign_envelope_id # 0
               /\ db'.docusign_envelope_status = "sent"
               /\ out'.offer_changed = 1
         /\ out'.create_piia <= 1
         /\ out'.create_piia = 1 <=>
               /\ at.status = GivingOffer
               /\ out'.onboarded = 0
               /\ db.docusign_piia_envelope_id = 0
         /\ out'.create_piia = 1 =>
               /\ db'.docusign_piia_envelope_id = prov'.piia.n
               /\ db'.docusign_piia_envelope_id # 0
               /\ db'.docusign_piia_envelope_status = "sent"
               /\ out'.piia_changed = 1
    ]_vars

\* A pass has just created both envelopes and stored what it created.
C3_Witness ==
    /\ out.op = "refresh_docusign_for_applicants"
    /\ out.create_offer = 1
    /\ out.create_piia = 1
    /\ db.docusign_envelope_id = 1
    /\ db.docusign_piia_envelope_id = 1
    /\ db.docusign_envelope_status = "sent"
    /\ out.offer_changed = 1
    /\ out.piia_changed = 1

\* C4: a poll or a webhook that sees the offer envelope completed while the
\* status is Giving offer stores Onboarding; once Onboarding is stored and
\* nobody edits the status, no later poll or webhook performs the transition
\* or sends the background-check invitation again.
C4_OnboardOnce ==
    [][out'.op \in Observations =>
         /\ ( /\ out'.op # "webhook_piia"
              /\ at.status = GivingOffer
              /\ db.docusign_envelope_id # 0
              /\ prov.offer.status = "completed" )
            => (db'.status = Onboarding /\ out'.onboarded = 1)
         /\ track => (out'.onboarded = 0 /\ out'.invitations = 0)
    ]_vars

\* A webhook has observed the completed offer again, after the transition
\* and the invitation, and has done neither.
C4_Witness ==
    /\ track
    /\ out.op = "webhook_offer"
    /\ out.onboarded = 0
    /\ out.invitations = 0
    /\ db.status = Onboarding
    /\ db.docusign_envelope_status = "completed"
    /\ db.criminal_background_check_status = "requested"
    /\ checkr.invitations = 1

\* C5: a reconciliation pass run a second time on the same row, the same
\* workspace record and the same reviews stores the record the first pass
\* stored (status, scorers, completed scorers, evaluation counter, envelope
\* fields) and posts no notification.
C5_SecondPassSame ==
    [][(out.op = "refresh_db_applicants" /\ out'.op = "refresh_db_applicants") =>
         /\ db'.status = db.status
         /\ db'.scorers = db.scorers
         /\ db'.scorers_completed = db.scorers_completed
         /\ db'.scoring_evaluations_count = db.scoring_evaluations_count
         /\ db'.docusign_envelope_id = db.docusign_envelope_id
         /\ db'.docusign_envelope_status = db.docusign_envelope_status
         /\ db'.docusign_piia_envelope_id = db.docusign_piia_envelope_id
         /\ db'.docusign_piia_envelope_status = db.docusign_piia_envelope_status
         /\ out'.status_changed = 0
         /\ out'.offer_changed = 0
         /\ out'.piia_changed = 0
    ]_vars

\* C6: every operation that changes the stored status by rule 1 or rule 2
\* (in the derivation of a reconciliation pass) or by the move from Giving
\* offer to Onboarding on a completed offer posts a status-changed
\* notification.
C6_StatusChangeNotified ==
    [][ /\ ( /\ out'.op = "refresh_db_applicants"
             /\ db'.status # keep_onboarding(db.status, from_str(sheet.raw_status)) )
           => out'.status_changed >= 1
        /\ out'.onboarded >= 1 => out'.status_changed >= 1
    ]_vars

\* C7: update_status posts a notification only when the status it leaves
\* differs from the status it found, and applied again to its own result it
\* changes nothing and posts nothing.
C7_NotifyOnlyOnChange ==
    [][out'.op = "update_status" =>
         /\ out'.status_changed <= 1
         /\ out'.status_changed = 1 => self'.status # self.status
         /\ out.op = "update_status" =>
               /\ self' = self
               /\ db' = db
               /\ at' = at
               /\ out'.status_changed = 0
    ]_vars

\* update_status has just moved an applicant with two interviews from Next
\* steps to Interviewing and posted the notification.
C7_Witness ==
    /\ out.op = "update_status"
    /\ out.before = NextSteps
    /\ self.status = Interviewing
    /\ db.status = Interviewing
    /\ out.status_changed = 1

\* C8: when the status is Next steps or Needs to be triaged, a reconciliation
\* pass that finds more than one interview stores Interviewing and posts
\* exactly one notification, and one that finds at most one interview leaves
\* the status alone.
C8_InterviewingNotified ==
    [][( /\ out'.op = "refresh_db_applicants"
         /\ keep_onboarding(db.status, from_str(sheet.raw_status))
               \in {NextSteps, NeedsToBeTriaged} ) =>
         IF Len(at.interviews) > 1
         THEN db'.status = Interviewing /\ out'.status_changed = 1
         ELSE db'.status = keep_onboarding(db.status, from_str(sheet.raw_status))
    ]_vars

C10_OtherwiseUnchanged ==
    out.op \in Derivations =>
        /\ ( /\ ~(Len(self.interviews) > 1 /\ out.before \in {NextSteps, NeedsToBeTriaged})
             /\ ~(out.before \in {Onboarding, GivingOffer} /\ StartReached(self, today)) )
           => self.status = out.before
        /\ out.before \in {Declined, Deferred, Interviewing, Hired, Contractor}
           => self.status = out.before
        /\ self.status \in {Declined, Deferred, GivingOffer}
           => self.status = out.before

\* update_status has just left alone a Deferred applicant with two interviews
\* and a start date that has come.
C10_Witness ==
    /\ out.op = "update_status"
    /\ out.before = Deferred
    /\ self.status = Deferred
    /\ Len(self.interviews) > 1
    /\ StartReached(self, today)
    /\ out.status_changed = 0

\* C11 as stated: a reconciliation pass that finds Onboarding in the database
\* and a row whose status parses to Giving offer stores Onboarding.
C11_StaysOnboarding ==
    [][( /\ out'.op = "refresh_db_applicants"
         /\ db.status = Onboarding
         /\ from_str(sheet.raw_status) = GivingOffer )
       => db'.status = Onboarding]_vars

\* C11: a reconciliation pass that finds Onboarding in the database and a row
\* whose status parses to Giving offer stores Onboarding, unless the start
\* date it keeps is set and has come, in which case rule 2 makes it Hired; it
\* never stores Giving offer.
C11_OnboardingOrHired ==
    [][( /\ out'.op = "refresh_db_applicants"
         /\ db.status = Onboarding
         /\ from_str(sheet.raw_status) = GivingOffer )
       => db'.status = IF StartReached(db', today) THEN Hired ELSE Onboarding]_vars

\* A pass has just kept Onboarding over a row that reads 'giving offer', for
\* an applicant whose offer is signed and whose start date is still ahead.
C11_Witness ==
    /\ out.op = "refresh_db_applicants"
    /\ sheet.raw_status = "giving offer"
    /\ db.status = Onboarding
    /\ db.docusign_envelope_status = "completed"
    /\ is_some(db.start_date)
    /\ ~StartReached(db, today)

\* C12: after update_reviews_scoring (in a pass of
\* refresh_new_applicants_and_reviews) or update_applications_with_scoring_results
\* on an applicant stored at Onboarding or Hired, every scoring counter of the
\* stored record is 0, whatever reviews are linked, none included.
C12_ScoresZeroed ==
    ( /\ out.op \in {"refresh_new_applicants_and_reviews",
                     "update_applications_with_scoring_results"}
      /\ ~out.err
      /\ db.status \in {Onboarding, Hired} )
    => \A c \in Counters : db[c] = 0

\* C13: after a reconciliation of the applicant (a row of
\* refresh_db_applicants, update_applications_with_scoring_forms, or
\* update_reviews_scoring in a pass of refresh_new_applicants_and_reviews) no
\* reviewer is both in the stored scorers and in the stored scorers_completed.
C13_ScorersDisjoint ==
    ( /\ out.op \in {"refresh_db_applicants",
                     "update_applications_with_scoring_forms",
                     "refresh_new_applicants_and_reviews"}
      /\ ~out.err )
    => ~\E i \in 1..Len(Reviewers) :
           /\ contains(db.scorers, Reviewers[i])
           /\ contains(db.scorers_completed, Reviewers[i])

\* C14: after update_reviews_scoring (in a pass of
\* refresh_new_applicants_and_reviews) on an applicant whose status is neither
\* Onboarding nor Hired, the stored evaluations counter is the number of
\* reviews linked to the applicant and each verdict or rationale counter is
\* the number of linked reviews whose evaluation starts with its prefix, for
\* every list of linked reviews, the empty one included.
C14_CountersDerived ==
    ( /\ out.op = "refresh_new_applicants_and_reviews"
      /\ ~out.err
      /\ db.status \notin {Onboarding, Hired} )
    => /\ db.scoring_evaluations_count = Len(at.link_to_reviews)
       /\ \A c \in DOMAIN Prefixes :
             db[c] = Cardinality({i \in 1..Len(at.link_to_reviews) :
                         starts_with(to_lowercase(at.link_to_reviews[i].evaluation),
                                     Prefixes[c])})

\* C15: every observation of an envelope, offer or agreements, by a poll or a
\* webhook whose steps all succeed, posts an envelope-status notification
\* exactly when the observed status differs from the stored one, and leaves
\* the observed status stored.
C15_NotifyIffChanged ==
    [][ /\ out'.op = "webhook_offer" =>
             /\ out'.offer_changed =
                   (IF db.docusign_envelope_status # prov.offer.status THEN 1 ELSE 0)
             /\ db'.docusign_envelope_status = prov.offer.status
        /\ out'.op = "webhook_piia" =>
             /\ out'.piia_changed =
                   (IF db.docusign_piia_envelope_status # prov.piia.status THEN 1 ELSE 0)
             /\ db'.docusign_piia_envelope_status = prov.piia.status
        /\ ( /\ out'.op = "refresh_docusign_for_applicants"
             /\ at.status \in {GivingOffer, Onboarding, Hired} ) =>
             /\ db.docusign_envelope_id # 0 =>
                   /\ out'.offer_changed =
                         (IF db.docusign_envelope_status # prov.offer.status
                          THEN 1 ELSE 0)
                   /\ db'.docusign_envelope_status = prov.offer.status
             /\ db.docusign_piia_envelope_id # 0 =>
                   /\ out'.piia_changed =
                         (IF db.docusign_piia_envelope_status # prov.piia.status
                          THEN 1 ELSE 0)
                   /\ db'.docusign_piia_envelope_status = prov.piia.status
    ]_vars

\* A poll has just observed both envelopes: the offer, whose status had not
\* changed since it was stored, without a notification, and the agreements,
\* newly completed, with one.
C15_Witness ==
    /\ out.op = "refresh_docusign_for_applicants"
    /\ out.create_offer = 0
    /\ out.create_piia = 0
    /\ out.offer_changed = 0
    /\ db.docusign_envelope_status = "delivered"
    /\ out.piia_changed = 1
    /\ db.docusign_piia_envelope_status = "completed"

\* C16: an observation of the completed offer envelope creates a
\* background-check invitation only when the stored background-check status
\* is empty, and over the applicant's life, whatever is observed and however
\* often, at most one invitation is created.
C16_InviteOnce ==
    [][ /\ out'.invitations <= 1
        /\ out'.invitations = 1 =>
              /\ out'.op \in {"refresh_docusign_for_applicants", "webhook_offer"}
              /\ prov.offer.status = "completed"
              /\ db.criminal_background_check_status = ""
              /\ db'.criminal_background_check_status = "requested"
        /\ checkr'.invitations <= 1
    ]_vars

\* The applicant was invited, a person moved the status back to Giving offer,
\* and an observation of the completed offer has just moved it to Onboarding
\* again without a second invitation.
C16_Witness ==
    /\ out.op \in {"refresh_docusign_for_applicants", "webhook_offer"}
    /\ out.onboarded = 1
    /\ out.invitations = 0
    /\ checkr.invitations = 1
    /\ db.criminal_background_check_status = "requested"
    /\ db.docusign_envelope_status = "completed"

\* C17: an observation of the completed offer envelope writes the employee's
\* home address from the form only if the employee's home address was empty
\* before; an employee with a street address keeps street and city unchanged.
C17_AddressKept ==
    [][employee.home_address_street_1 # <<>> =>
          /\ employee'.home_address_street_1 = employee.home_address_street_1
          /\ employee'.home_address_city = employee.home_address_city
    ]_vars

\* C18 as stated: the lifecycle status stored after an observation of the
\* agreements envelope by the webhook is the status stored before it.
C18_StoredStatusSame ==
    [][out'.op = "webhook_piia" => db'.status = db.status]_vars

\* C18: an observation of the agreements envelope, completed or not, derives
\* no lifecycle transition: the workspace keeps the status it had, and the
\* database holds that same status afterwards (the one
\* keep_fields_from_airtable read), whatever it held before.
C18_NoTransition ==
    [][out'.op = "webhook_piia" =>
          /\ at'.status = at.status
          /\ db'.status = at.status
          /\ out'.onboarded = 0
          /\ out'.status_changed = 0
    ]_vars

\* The webhook has just observed the completed agreements envelope of an
\* applicant at Giving offer, and the applicant is still at Giving offer.
C18_Witness ==
    /\ out.op = "webhook_piia"
    /\ out.piia_changed = 1
    /\ db.docusign_piia_envelope_status = "completed"
    /\ db.status = GivingOffer
    /\ at.status = GivingOffer

\* C20: when create_envelope or get_envelope returns an error,
\* do_docusign_offer and do_docusign_piia return the error: no envelope is
\* created by another attempt, nothing is posted for that envelope, and the
\* stored id and status of that envelope are what they were before the call.
C20_ProviderErrorReturned ==
    [][ /\ out'.failed \in {"offer.create_envelope", "offer.get_envelope"} =>
             /\ out'.err
             /\ out'.create_offer = 0
             /\ out'.offer_changed = 0
             /\ prov' = prov
             /\ db' = db
             /\ at' = at
        /\ out'.failed \in {"piia.create_envelope", "piia.get_envelope"} =>
             /\ out'.err
             /\ out'.create_piia = 0
             /\ out'.piia_changed = 0
             /\ prov'.piia = prov.piia
             /\ db'.docusign_piia_envelope_id = db.docusign_piia_envelope_id
             /\ db'.docusign_piia_envelope_status = db.docusign_piia_envelope_status
             /\ at'.docusign_piia_envelope_id = at.docusign_piia_envelope_id
             /\ at'.docusign_piia_envelope_status = at.docusign_piia_envelope_status
    ]_vars

\* get_envelope has just failed for an agreements envelope that the signers
\* completed: the pass returned the error and 'sent' is still stored.
C20_Witness ==
    /\ out.op = "refresh_docusign_for_applicants"
    /\ out.err
    /\ out.failed = "piia.get_envelope"
    /\ prov.piia.status = "completed"
    /\ db.docusign_piia_envelope_id # 0
    /\ db.docusign_piia_envelope_status = "sent"

\* C19: in a run of refresh_db_applicants, refresh_new_applicants_and_reviews
\* or refresh_docusign_for_applicants, an error on one applicant does not stop
\* the run: every applicant the driver iterates over is reached, those after
\* a failing one included.
C19_LaterApplicantsProcessed ==
    \A name \in Drivers :
        out.op = name =>
            \A i \in Applicants :
                selected(name, db[i]) => contains(out.processed, i)

\* C21: when the provider lists no template with the required name, so that
\* get_docusign_template_id yields "", no create_envelope request carries an
\* empty template id, and the pass of refresh_docusign_for_applicants returns
\* an error.
C21_NoEmptyTemplateRequest ==
    /\ \A i \in 1..Len(out.create_requests) : out.create_requests[i] # ""
    /\ ( /\ out.op = "refresh_docusign_for_applicants"
         /\ \/ get_docusign_template_id(prov, DOCUSIGN_OFFER_TEMPLATE) = ""
            \/ get_docusign_template_id(prov, DOCUSIGN_PIIA_TEMPLATE) = "" )
       => out.err

\* C26: when get_file_contents returns, whatever the exit path, every
\* temporary file and directory it created during the call is gone: nothing
\* exists under the temporary directory that did not exist when the call
\* started.
C26_TemporaryFilesDeleted ==
    out.op = "get_file_contents" => tmp \subseteq out.tmp_before

\* C27: when a converter process (pdftotext, pandoc, catdoc, unrtf, 7z) fails
\* to run, get_file_contents returns an error: no Ok, no panic.
C27_ConverterFailureReturned ==
    (out.op = "get_file_contents" /\ out.failed \in Converters)
        => out.result.kind = "Err"

\* The first position from `from` on where piece occurs in text, 0 when
\* there is none.
next_match(text, piece, from) ==
    IF \E p \in from..Len(text) : occurs(text, piece, p)
    THEN CHOOSE p \in from..Len(text) :
             /\ occurs(text, piece, p)
             /\ \A q \in from..(p - 1) : ~occurs(text, piece, q)
    ELSE 0

\* C28: when boundary i matches the text and boundary i+1 matches after it,
\* the text parse_question captures for boundary i starts at the end of
\* boundary i's match and ends right before the next match of boundary i+1
\* after that, also when boundary i+1 occurs more than once; for the last
\* boundary (no boundary i+1) the captured text runs to the end of the text.
C28_SegmentToNextBoundary ==
    (out.op = "parse_question" /\ is_some(out.captured)) =>
        IF Calls[out.call].q2 = <<>>
        THEN unwrap(out.captured).to = Len(self.materials_contents)
        ELSE /\ unwrap(out.captured).from =
                    next_match(self.materials_contents, Calls[out.call].q1[1], 1)
                        + Len(Calls[out.call].q1[1])
             /\ unwrap(out.captured).to + 1 =
                    next_match(self.materials_contents, Calls[out.call].q2[1],
                               unwrap(out.captured).from)

\* The last boundary captures up to the end of a text that goes on after it.
C28_LastBoundaryToEnd ==
    (out.op = "parse_question" /\ is_some(out.captured)
        /\ Calls[out.call].q2 = <<>>
        /\ unwrap(out.captured).from <= Len(self.materials_contents))
        => unwrap(out.captured).to = Len(self.materials_contents)

C28_LastBoundaryReached ==
    out.op = "parse_question" /\ is_some(out.captured)
      /\ Calls[out.call].q2 = <<>>
      /\ unwrap(out.captured).from <= Len(self.materials_contents)

\* Text that holds nothing but boilerplate substrings, colons and whitespace.
only_noise(val) ==
    \A i \in 1..Len(strip_boilerplate(val)) :
        strip_boilerplate(val)[i] \in White \cup {":"}

\* C29: parse_question never fails; it returns the empty string when the
\* start boundary or the end boundary does not match the text (the empty
\* text included), and when the captured text holds only boilerplate
\* substrings, colons and whitespace.
C29_NoiseCollapsesToEmpty ==
    out.op = "parse_question" =>
        /\ out.result.kind = "Ok"
        /\ ~is_some(out.captured) => out.result.value = <<>>
        /\ ( /\ is_some(out.captured)
             /\ only_noise(SubSeq(self.materials_contents,
                                  unwrap(out.captured).from,
                                  unwrap(out.captured).to)) )
           => out.result.value = <<>>

\* No match, the empty text included, gives the empty string and no error.
C29_NoMatchIsEmpty ==
    (out.op = "parse_question" /\ ~is_some(out.captured))
        => (out.result = Ok(<<>>))

C29_NoMatchReached ==
    out.op = "parse_question" /\ ~is_some(out.captured)
      /\ self.materials_contents # <<>>

C29_EmptyTextReached ==
    out.op = "parse_question" /\ self.materials_contents = <<>>

\* seg lies in text at position p.
lies_at(text, seg, p) ==
    /\ p + Len(seg) - 1 <= Len(text)
    /\ SubSeq(text, p, p + Len(seg) - 1) = seg

\* first and second lie in text, second after the end of first.
in_order(text, first, second) ==
    \E p \in 1..(Len(text) + 1) :
        /\ lies_at(text, first, p)
        /\ \E q \in (p + Len(first))..(Len(text) + 1) : lies_at(text, second, q)

\* C30: after parse_materials every segment is a substring of the materials
\* text (no character in a segment that the text does not hold at that
\* position), and the segments of consecutive boundaries lie in the text one
\* after the other without overlapping.
C30_SegmentsWithinText ==
    out.op = "parse_materials" =>
        /\ in_order(self.materials_contents, self.work_samples, self.writing_samples)
        /\ in_order(self.materials_contents, self.question_values_in_tension,
                    self.question_why_oxide)

\* The two passes that expand an applicant, and the applicant as the pass
\* hands it to expand.
ExpandPasses == {"refresh_db_applicants", "refresh_new_applicants_and_reviews"}

Expanded ==
    IF db.sheet_id = TrackingSheet
    THEN parse_from_row_with_columns(sheet, Some(db), at, today)
    ELSE keep_fields_from_airtable(World(db, "refresh_new_applicants_and_reviews")).self

\* C22: in NewApplicant::expand and in Applicant::expand, get_file_contents
\* and the segmentation run if and only if ((less than 2 days since the
\* submission) or (less than 20 days since it and the why-Oxide answer is
\* empty)) and the status is not Declined.  On a pass where this does not
\* hold there is no extraction call and no segmentation; on a pass where it
\* holds and expand gets that far, files are extracted, and unless a step
\* returns an error both files are extracted and the materials segmented.
C22_ExtractionGated ==
    [][ out'.op \in ExpandPasses =>
            LET open == /\ \/ today - Expanded.submitted_time < 2
                           \/ /\ today - Expanded.submitted_time < 20
                              /\ Expanded.question_why_oxide = <<>>
                        /\ Expanded.status # Declined
                reached == out'.failed # "expand" /\ out'.warned = 0
            IN /\ ~open => (out'.extractions = 0 /\ out'.segmented = 0)
               /\ (open /\ reached) => out'.extractions >= 1
               /\ (open /\ reached /\ ~out'.err)
                      => (out'.extractions = 2 /\ out'.segmented = 1) ]_vars

\* A pass has extracted both files and segmented the materials of an
\* application that is two days old or older.
C22_Witness ==
    /\ out.op \in ExpandPasses
    /\ out.extractions = 2
    /\ out.segmented = 1
    /\ today - db.submitted_time >= 2

\* A pass has run with the gate closed on an application less than 20 days
\* old, and one on a declined applicant.
C22_AnsweredReached ==
    /\ out.op \in ExpandPasses
    /\ ~out.err
    /\ out.extractions = 0
    /\ today - db.submitted_time < 20
    /\ db.status # Declined

C22_DeclinedReached ==
    /\ out.op \in ExpandPasses
    /\ ~out.err
    /\ out.extractions = 0
    /\ today - db.submitted_time < 2
    /\ db.status = Declined

\* The extracted content fields of an applicant.
ContentFields ==
    {"resume_contents", "materials_contents", "work_samples", "writing_samples",
     "question_values_in_tension", "question_why_oxide"}

\* C24: once the database record holds a non-empty extracted content field
\* (resume text, materials text, a sample or question segment), no later
\* reconciliation pass stores an empty value in that field, the passes that
\* extract again and get an empty text included.
C24_ContentNotBlanked ==
    [][ \A field \in ContentFields : db[field] # <<>> => db'[field] # <<>> ]_vars

\* A pass whose gate is closed copies the stored content.
C24_CopiedWhenClosed ==
    [][ (out'.op \in ExpandPasses /\ out'.extractions = 0)
            => \A field \in ContentFields : db'[field] = db[field] ]_vars

C24_ClosedWithContent ==
    /\ out.op \in ExpandPasses
    /\ out.extractions = 0
    /\ ~out.err
    /\ db.resume_contents # <<>>

\* The fields for which the database's value is preferred, each with its
\* empty value, and the row as parsed when the database holds no record.
EmptyValue ==
    [docusign_envelope_id |-> 0, docusign_envelope_status |-> "",
     offer_created |-> None, offer_completed |-> None,
     docusign_piia_envelope_id |-> 0, docusign_piia_envelope_status |-> "",
     piia_envelope_created |-> None, piia_envelope_completed |-> None,
     country_code |-> "", start_date |-> None,
     criminal_background_check_status |-> "",
     motor_vehicle_background_check_status |-> ""]

Parsed == parse_from_row_with_columns(sheet, None, DefaultApplicant, today)

\* The value the policy gives the field: the database's unless it is empty.
Preferred(field) ==
    IF db[field] # EmptyValue[field] THEN db[field] ELSE Parsed[field]

\* C23: when a database record exists, the reconciled value of each of the
\* offer envelope id, status, created and completed, the agreements envelope
\* id, status, created and completed, the country code, the start date, the
\* criminal and the motor-vehicle background-check status is the database
\* record's value of that field when it is non-empty, and the freshly parsed
\* value otherwise.
C23_DatabaseValuePreferred ==
    [][ (out'.op = "refresh_db_applicants" /\ ~out'.err)
            => \A field \in DOMAIN EmptyValue : db'[field] = Preferred(field) ]_vars

\* The same for the fields other than the start date and the motor-vehicle
\* status.
C23_OthersPreferred ==
    [][ (out'.op = "refresh_db_applicants" /\ ~out'.err)
            => \A field \in DOMAIN EmptyValue \ {"start_date",
                                                "motor_vehicle_background_check_status"} :
                   db'[field] = Preferred(field) ]_vars

\* The motor-vehicle status alone.
C23_MotorVehiclePreferred ==
    [][ (out'.op = "refresh_db_applicants" /\ ~out'.err)
            => db'.motor_vehicle_background_check_status =
                   Preferred("motor_vehicle_background_check_status") ]_vars

\* The start date alone.
C23_StartDatePreferred ==
    [][ (out'.op = "refresh_db_applicants" /\ ~out'.err)
            => db'.start_date = Preferred("start_date") ]_vars

\* A pass has kept envelope fields, a country code and a criminal status that
\* the row does not carry.
C23_KeptReached ==
    /\ out.op = "refresh_db_applicants"
    /\ ~out.err
    /\ db.docusign_envelope_status = "completed"
    /\ is_some(db.piia_envelope_completed)
    /\ db.country_code = "us"
    /\ db.criminal_background_check_status = "clear"

\* C25: when a database record and a workspace record exist, the reconciled
\* scorers, interviews and link_to_reviews are the workspace record's,
\* whatever the row and the database record hold.
C25_WorkspaceValuePreferred ==
    [][ (out'.op = "refresh_db_applicants" /\ ~out'.err)
            => /\ db'.scorers = at.scorers
               /\ db'.interviews = at.interviews
               /\ db'.link_to_reviews = at.link_to_reviews ]_vars

\* The scorers and the interviews are the workspace's.
C25_ScorersAndInterviews ==
    [][ (out'.op = "refresh_db_applicants" /\ ~out'.err)
            => /\ db'.scorers = at.scorers
               /\ db'.interviews = at.interviews ]_vars

\* A pass has taken scorers and interviews that only the workspace held.
C25_TakenReached ==
    /\ out.op = "refresh_db_applicants"
    /\ ~out.err
    /\ db.scorers # <<>>
    /\ db.interviews # <<>>

\* C32: each envelope only moves forward through absent, sent, completed:
\* once the stored id of the offer or of the agreements envelope is
\* non-empty, no reconciliation pass, poll or webhook observation empties or
\* changes it, and once the stored status of an envelope is "completed" it
\* never becomes another status.
C32_EnvelopeForwardOnly ==
    [][/\ db.docusign_envelope_id # 0
            => db'.docusign_envelope_id = db.docusign_envelope_id
       /\ db.docusign_piia_envelope_id # 0
            => db'.docusign_piia_envelope_id = db.docusign_piia_envelope_id
       /\ db.docusign_envelope_status = "completed"
            => db'.docusign_envelope_status = "completed"
       /\ db.docusign_piia_envelope_status = "completed"
            => db'.docusign_piia_envelope_status = "completed"]_vars

\* The half of C32 about the ids: a stored envelope id stays as it is.
C32_IdKept ==
    [][/\ db.docusign_envelope_id # 0
            => db'.docusign_envelope_id = db.docusign_envelope_id
       /\ db.docusign_piia_envelope_id # 0
            => db'.docusign_piia_envelope_id = db.docusign_piia_envelope_id]_vars

\* The half about the status, for the observations that read the envelope
\* from the provider (the poll of refresh_docusign_for_applicants) and for
\* the reconciliation pass.
C32_CompletedKeptByPasses ==
    [][out'.op \in {"refresh_docusign_for_applicants", "refresh_db_applicants"} =>
          /\ db.docusign_envelope_status = "completed"
                => db'.docusign_envelope_status = "completed"
          /\ db.docusign_piia_envelope_status = "completed"
                => db'.docusign_piia_envelope_status = "completed"]_vars

\* Both envelopes are stored as completed and the passes have run on them.
C32_CompletedReached ==
    /\ db.docusign_envelope_id # 0
    /\ db.docusign_piia_envelope_id # 0
    /\ db.docusign_envelope_status = "completed"
    /\ db.docusign_piia_envelope_status = "completed"
    /\ out.op = "refresh_db_applicants"

\* C33: the two envelopes of an applicant are created in order: in a run of
\* refresh_docusign_for_applicants the agreements envelope is created only
\* when the applicant's offer envelope has been created, its id non-empty.
C33_OfferBeforeAgreements ==
    out.create_piia > 0 => db.docusign_envelope_id # 0

\* The order holds in every pass during which nobody edits the workspace
\* record between do_docusign_offer and do_docusign_piia: the status the
\* second step reads is the one the first step read or wrote.
C33_OrderedWithoutEdit ==
    [][(/\ self.pass # NoApplicant
        /\ self.pass.status = at.status
        /\ out'.create_piia > 0)
          => db'.docusign_envelope_id # 0]_vars

\* A pass created the agreements envelope right after the offer envelope.
C33_BothCreatedReached ==
    /\ out.create_piia > 0
    /\ db.docusign_envelope_id # 0
    /\ db.docusign_piia_envelope_id # 0
    /\ prov.offer.n = 1
    /\ prov.piia.n = 1

\* A job in flight writes the applicant it holds in memory back.
WritesBack ==
    \/ self.pass # NoApplicant /\ self'.pass = NoApplicant
    \/ self.webhook # NoApplicant /\ self'.webhook = NoApplicant

\* C36: when the webhook handler and a pass of
\* refresh_docusign_for_applicants work on the same applicant at the same
\* time, neither overwrites with its own copy what the other has stored: a
\* stored envelope id stays, a stored "completed" stays, Onboarding stays.
C36_NoLostUpdate ==
    [][WritesBack =>
          /\ db.docusign_envelope_id # 0 => db'.docusign_envelope_id # 0
          /\ db.docusign_piia_envelope_id # 0 => db'.docusign_piia_envelope_id # 0
          /\ db.docusign_envelope_status = "completed"
                => db'.docusign_envelope_status = "completed"
          /\ (db.status = Onboarding /\ at.status = Onboarding)
                => db'.status = Onboarding]_vars

\* C36, its conclusion: no interleaving leads to a second envelope of the
\* same kind.
C36_NoSecondEnvelope ==
    \A kind \in {"offer", "piia"} : prov[kind].n < 2

\* The lifecycle status is not lost: both jobs read it from the workspace
\* record before they write.
C36_LifecycleStatusKept ==
    [][WritesBack =>
          ((db.status = Onboarding /\ at.status = Onboarding)
               => db'.status = Onboarding)]_vars

C37_AgreementsEventuallyCreated ==
    (prov.offer.n > 0) ~> (prov.piia.n > 0)

\* While the applicant is still at Giving offer the failed create is made up
\* for: an offer envelope that is not completed yet leads to an agreements
\* envelope or to the offer's completion.
C37_MadeUpForAtGivingOffer ==
    (prov.offer.n > 0) ~> (prov.piia.n > 0 \/ prov.offer.status = "completed")

\* The agreements envelope was created by a later pass than the offer's.
C37_LaterPassReached ==
    /\ out.op = "refresh_docusign_for_applicants"
    /\ out.create_piia = 1
    /\ out.create_offer = 0
    /\ prov.offer.n = 1

\* C38: when the processing of a completed offer envelope fails after the
\* status Onboarding has been stored (the background-check request fails),
\* the passes that follow eventually perform what is left: an applicant
\* whose offer is completed and whose background-check status is empty
\* eventually gets the invitation, the collaborators succeeding in the end.
C38_InvitationEventuallyCreated ==
    (/\ db.status = Onboarding
     /\ db.docusign_envelope_status = "completed"
     /\ db.criminal_background_check_status = "")
        ~> (checkr.invitations > 0)

\* What the passes do make up for is the observation itself: a completed
\* offer envelope is eventually stored as completed.
C38_CompletionEventuallyStored ==
    (prov.offer.status = "completed") ~> (db.docusign_envelope_status = "completed")

\* A pass in which nothing fails has just run on an applicant stored as
\* Onboarding with a completed offer, and no invitation exists.
C38_RerunWithoutInvitationReached ==
    /\ out.op = "refresh_docusign_for_applicants"
    /\ out.failed = ""
    /\ db.status = Onboarding
    /\ db.docusign_envelope_status = "completed"
    /\ db.criminal_background_check_status = ""
    /\ checkr.invitations = 0

\* C39: every stored change of an envelope's status is eventually announced
\* in chat: when an observation stores the new status and fails before the
\* notification is posted, a later observation of the same status posts it,
\* the collaborators succeeding in the end.
C39_StoredChangeEventuallyAnnounced ==
    (/\ out.failed = "checkr"
     /\ out.offer_changed = 0
     /\ db.docusign_envelope_status = "completed")
        ~> (/\ out.offer_changed > 0
            /\ db.docusign_envelope_status = "completed")

\* An observation in which nothing fails announces the change it stores.
C39_AnnouncedWhenNothingFails ==
    [][ /\ db'.docusign_envelope_status # db.docusign_envelope_status
        /\ out'.failed = ""
        => out'.offer_changed > 0 ]_vars

\* A change of the offer envelope's status has been stored and announced by
\* the same observation.
C39_AnnouncedReached ==
    /\ out.offer_changed > 0
    /\ out.failed = ""
    /\ db.docusign_envelope_status = "completed"

\* The files holding a document of an envelope.
FilesOf(kind, document) ==
    {i \in 1..Len(drive.files) : drive.files[i].contents = get_document(kind, document)}

\* Every document of the envelope has exactly one file.
AllFiled(kind) ==
    \A k \in 1..Len(prov.documents[kind]) :
        Cardinality(FilesOf(kind, prov.documents[kind][k])) = 1

\* The names the documents of the four kinds are filed under, and the one of
\* a document of another kind.
FiledNames(name) ==
    {name \o <<" ", "-", " ", "O", "f", "f", "e", "r", ".", "p", "d", "f">>,
     name \o <<" ", "-", " ", "O", "f", "f", "e", "r", " ", "-", " ", "D", "o", "c", "u", "S", "i", "g", "n", " ", "S", "u", "m", "m", "a", "r", "y", ".", "p", "d", "f">>,
     name \o <<" ", "-", " ", "M", "e", "d", "i", "a", "t", "i", "o", "n", " ", "A", "g", "r", "e", "e", "m", "e", "n", "t", ".", "p", "d", "f">>,
     name \o <<" ", "-", " ", "P", "I", "I", "A", ".", "p", "d", "f">>,
     name \o <<" ", "-", " ", "E", "m", "p", "l", "o", "y", "e", "e", " ", "A", "g", "r", "e", "e", "m", "e", "n", "t", "s", " ", "-", " ", "D", "o", "c", "u", "S", "i", "g", "n", " ", "S", "u", "m", "m", "a", "r", "y", ".", "p", "d", "f">>,
     name \o <<" ", "-", " ", "R", "e", "l", "o", "c", "a", "t", "i", "o", "n", ".", "p", "d", "f">>}

\* One folder of the applicant's name, and in it no two files of one name,
\* each under a name made of the applicant's name and the document's kind.
FiledOnce ==
    /\ Len(drive.folders) <= 1
    /\ \A i \in 1..Len(drive.folders) : drive.folders[i] = db.name
    /\ \A i, j \in 1..Len(drive.files) :
          drive.files[i].name = drive.files[j].name => i = j
    /\ \A i \in 1..Len(drive.files) :
          /\ drive.files[i].parent = 1
          /\ drive.files[i].name \in FiledNames(db.name)

\* The completed envelope has just been observed, nothing failing.
ObservedCompleted(kind) ==
    /\ out.op = (IF kind = "offer" THEN "webhook_offer" ELSE "webhook_piia")
    /\ out.failed = ""
    /\ prov[kind].status = "completed"

\* C34: filing the documents of a completed envelope is idempotent: however
\* often the same completed envelope is observed, the applicant's folder
\* holds exactly one file per document, under a name that depends only on
\* the applicant's name and the document's kind, and never a duplicate; an
\* observation that finds the documents filed leaves the drive as it is.
C34_FilingIdempotent ==
    [][ /\ FiledOnce'
        /\ \A kind \in {"offer", "piia"} :
              ObservedCompleted(kind)' =>
                  /\ AllFiled(kind)'
                  /\ AllFiled(kind) => drive' = drive ]_vars

\* The completed offer envelope has been observed once more, after the
\* observation that stored its status, and both envelopes' documents are
\* filed, one file each.
C34_ObservedAgainReached ==
    /\ ObservedCompleted("offer")
    /\ out.offer_changed = 0
    /\ db.docusign_envelope_status = "completed"
    /\ AllFiled("offer")
    /\ AllFiled("piia")
    /\ Len(drive.files) = Len(prov.documents.offer) + Len(prov.documents.piia)

\* C31: for every stored applicant, serializing it to JSON and deserializing
\* the result gives an applicant equal to the original, and the scorers are
\* serialized as a list of user objects that carry an email field.
C31_RoundTrip ==
    /\ self # NoApplicant => self = Ok(db)
    /\ out # NoJson =>
          /\ "scorers" \in DOMAIN out.v <=> db["scorers"] # <<>>
          /\ "scorers" \in DOMAIN out.v =>
                /\ out.v["scorers"].t = "array"
                /\ Len(out.v["scorers"].v) = Len(db["scorers"])
                /\ \A i \in 1..Len(db["scorers"]) :
                      out.v["scorers"].v[i] =
                          json_object([email |-> json_string(db["scorers"][i])])

\* An applicant with scorers and with empty fields has been serialized, the
\* scorers as user objects and the empty fields left out, and read back.
C31_RoundTripReached ==
    /\ self = Ok(db)
    /\ Len(db["scorers"]) = 2
    /\ "scorers" \in DOMAIN out.v
    /\ db["phone"] = <<>>
    /\ "phone" \notin DOMAIN out.v

====
